---------------------------- MODULE Spec2Model ----------------------------
(***************************************************************************)
(* Model of the multi-tenant ConversationRelay WebSocket server:           *)
(*   - the connection router and the tunnel registry (activeTunnels),      *)
(*   - the credential exchange (requestCredentialsThroughTunnel),          *)
(*   - the per-call engine (handleConversationRelay).                      *)
(* Strings that the code takes apart (request paths) are sequences of      *)
(* one-character strings; all other strings are TLA+ strings.              *)
(***************************************************************************)
EXTENDS Integers, Sequences, FiniteSets, TLC

\* ------------------------------------------------------------------ bounds
\* Number of WebSocket connections the server accepts in a run.
MaxConns == 3
\* Number of messages an observer's log holds before its calls' events other
\* than prompts stop arriving.
MaxLog == 3
\* Number of prompt events a call connection delivers in a run.
MaxPrompts == 2
\* Number of tool invocations in one model response.
MaxToolCalls == 2
\* The time between two observations of the clock, in milliseconds.
TickMs == 10000
\* Number of prompt events a call delivers in the runs that follow one call from
\* its settings retrieval on (SpecCall) or two calls side by side (SpecMirror).
CallPrompts == 1

\* --------------------------------------------------------- program constants
\* setTimeout(..., 10000): the credential timeout, in milliseconds.
CredentialTimeout == 10000
\* ws.close(1008, ...): policy violation.
PolicyViolation == 1008
\* ws.close(1011, 'Server error').
ServerError == 1011

\* process.env.OPENAI_API_KEY, the server-wide default secret.
DefaultKey == "sk-instructor"
\* A JavaScript undefined / null value of a string-valued field.
Undefined == "undefined"
\* JavaScript truthiness of a string-valued field.
Truthy(v) == v # Undefined /\ v # ""

\* ------------------------------------------------------------ request paths
WS_PREFIX == <<"/", "w", "s", "/">>
TUNNEL_PREFIX == <<"/", "t", "u", "n", "n", "e", "l", "/">>

\* String.prototype.startsWith
StartsWith(s, p) == Len(s) >= Len(p) /\ SubSeq(s, 1, Len(p)) = p

\* Index of the first occurrence of the character sep in s at or after i, 0 if none.
RECURSIVE IndexOf(_, _, _)
IndexOf(s, sep, i) ==
    IF i > Len(s) THEN 0
    ELSE IF s[i] = sep THEN i
    ELSE IndexOf(s, sep, i + 1)

\* String.prototype.split on a one-character separator.
RECURSIVE Split(_, _)
Split(s, sep) ==
    LET i == IndexOf(s, sep, 1) IN
    IF i = 0 THEN << s >>
    ELSE << SubSeq(s, 1, i - 1) >> \o Split(SubSeq(s, i + 1, Len(s)), sep)

\* const lastPart = urlParts[urlParts.length - 1]
LastPart(url) == LET urlParts == Split(url, "/") IN urlParts[Len(urlParts)]

\* const sessionToken = lastPart.split('?')[0]
SessionTokenOf(url) == Split(LastPart(url), "?")[1]

\* The check of the token for emptiness alone.
TokenRejectedEmptyOnly(sessionToken) == sessionToken = << >>

\* !sessionToken || sessionToken === 'ws' || sessionToken === 'tunnel'
TokenRejected(sessionToken) ==
    \/ sessionToken = << >>
    \/ sessionToken = <<"w", "s">>
    \/ sessionToken = <<"t", "u", "n", "n", "e", "l">>

\* The request paths of the connections of a run.
URLs ==
    { TUNNEL_PREFIX \o <<"a">>,
      TUNNEL_PREFIX \o <<"b">>,
      WS_PREFIX \o <<"a">>,
      WS_PREFIX \o <<"b", "?", "k">>,
      WS_PREFIX }

\* --------------------------------------------------------------- the state
VARIABLES
    nConns,          \* connections accepted so far; connection ids are 1..nConns
    kind,            \* per connection: "none", "rejected", "tunnel", "call"
    token,           \* per connection: the session token of its path
    readyState,      \* per connection: "NEW", "OPEN", "CLOSING", "CLOSED"
    closeCode,       \* per connection: the status the server closed it with, 0 if none
    activeTunnels,   \* the Map sessionToken -> tunnel connection
    tunnelOut,       \* per connection: the messages sent to it as an observer
    callOut,         \* per connection: the messages sent on it as a call connection
    pc,              \* per call connection: where its engine stands
    studentConfig,   \* per call connection: the configuration loaded for it
    openaiApiKey,    \* per call connection: the secret of "new OpenAI({apiKey})"
    req,             \* per call connection: its credential request
    nReq,            \* credential requests created so far
    callMetadata,    \* per call connection: callMetadata
    conversationHistory, \* per call connection: conversationHistory
    tasks,           \* per call connection: its prompt events, each with its progress
    reqUrl,          \* per connection: req.url, the path it was requested with
    fetched,         \* per call connection: what its settings retrieval came to
    lastEvent,       \* per call connection: data.type of the last event it parsed
    sendThrows,      \* per connection: whether send() on it throws
    inputs,          \* per call connection: its prompt events and the model's replies,
                     \* in the order the handlers took them
    unheard          \* per call connection: the types of the events that arrived on
                     \* it while no 'message' listener was attached

vars == << nConns, kind, token, readyState, closeCode, activeTunnels, tunnelOut,
           callOut, pc, studentConfig, openaiApiKey, req, nReq, callMetadata,
           conversationHistory, tasks, reqUrl, fetched, lastEvent, sendThrows, inputs, unheard >>

Conns == 1 .. MaxConns

\* activeTunnels.get(sessionToken); 0 stands for undefined.
TunnelsGet(sessionToken) ==
    IF sessionToken \in DOMAIN activeTunnels THEN activeTunnels[sessionToken] ELSE 0

\* activeTunnels.set(sessionToken, ws)
TunnelsSet(sessionToken, ws) ==
    [t \in (DOMAIN activeTunnels) \cup {sessionToken} |->
        IF t = sessionToken THEN ws ELSE activeTunnels[t]]

\* activeTunnels.delete(sessionToken)
TunnelsDelete(sessionToken) ==
    [t \in (DOMAIN activeTunnels) \ {sessionToken} |-> activeTunnels[t]]

\* A message to an observer. "from" is the connection whose handler sent it.
\* "prompt" is the prompt event (its number on the call) the message is about, 0 if none.
TunnelMsg(type, from, requestId) ==
    [type |-> type, from |-> from, requestId |-> requestId, prompt |-> 0]

NoConfig ==
    [openai_api_key |-> Undefined, system_prompt |-> Undefined, tools |-> << >>]

NoMessage ==
    [json |-> FALSE, type |-> "none", requestId |-> 0, openaiApiKey |-> Undefined,
     secret |-> Undefined]

\* A credential request: the requestId, the tunnel connection it listens on, its
\* timer ("armed", "cleared", "fired") with the time run so far and the time it
\* fired at, whether its listener is attached, the number of calls of resolve or
\* reject, the outcome of the exchange with the value and the message that
\* resolved it, and whether the listener has passed over a message (ignored) and
\* whether a matching response came after the timeout (late).
NoRequest ==
    [requestId |-> 0, tunnelWs |-> 0, timeout |-> "none", listener |-> FALSE,
     elapsed |-> 0, firedAt |-> 0, settled |-> 0, outcome |-> "none",
     value |-> Undefined, by |-> NoMessage, ignored |-> FALSE, late |-> FALSE]

NoMetadata ==
    [callSid |-> Undefined, from |-> Undefined, to |-> Undefined,
     direction |-> Undefined, sessionId |-> Undefined]

Init ==
    /\ nConns = 0
    /\ kind = [c \in Conns |-> "none"]
    /\ token = [c \in Conns |-> << >>]
    /\ readyState = [c \in Conns |-> "NEW"]
    /\ closeCode = [c \in Conns |-> 0]
    /\ activeTunnels = << >>
    /\ tunnelOut = [c \in Conns |-> << >>]
    /\ callOut = [c \in Conns |-> << >>]
    /\ pc = [c \in Conns |-> "none"]
    /\ studentConfig = [c \in Conns |-> NoConfig]
    /\ openaiApiKey = [c \in Conns |-> "unset"]
    /\ req = [c \in Conns |-> NoRequest]
    /\ nReq = 0
    /\ callMetadata = [c \in Conns |-> NoMetadata]
    /\ conversationHistory = [c \in Conns |-> << >>]
    /\ tasks = [c \in Conns |-> << >>]
    /\ reqUrl = [c \in Conns |-> << >>]
    /\ sendThrows = [c \in Conns |-> FALSE]
    /\ unheard = [c \in Conns |-> {}]
    /\ fetched = [c \in Conns |-> "none"]
    /\ lastEvent = [c \in Conns |-> "none"]
    /\ inputs = [c \in Conns |-> << >>]


\* ------------------------------------------------------- the tunnel registry
\* sendTunnelEvent keeping to the first tunnel connection of the token that is
\* still open, whatever the registry holds now.
sendTunnelEventFirst(out, sessionToken, msg) ==
    LET open == { c \in Conns : kind[c] = "tunnel" /\ token[c] = sessionToken
                                  /\ readyState[c] = "OPEN" }
    IN IF open = {} THEN out
       ELSE [out EXCEPT ![CHOOSE c \in open : \A d \in open : c <= d] = Append(@, msg)]

\* sendTunnelEvent taking whichever tunnel the registry holds, of any token.
sendTunnelEventAny(out, sessionToken, msg) ==
    LET open == { t \in DOMAIN activeTunnels : readyState[activeTunnels[t]] = "OPEN" }
    IN IF open = {} THEN out
       ELSE [out EXCEPT ![activeTunnels[CHOOSE t \in open : TRUE]] = Append(@, msg)]

\* sendTunnelEvent without the check of the readyState.
sendTunnelEventNotOpen(out, sessionToken, msg) ==
    LET tunnelWs == TunnelsGet(sessionToken) IN
    IF tunnelWs # 0
    THEN IF sendThrows[tunnelWs]
         THEN out
         ELSE [out EXCEPT ![tunnelWs] = Append(@, msg)]
    ELSE out

\* sendTunnelEvent(eventType, data) of the call with token sessionToken: out is the
\* observers' message log so far, msg the serialized event; the result is the log
\* after the call.
sendTunnelEvent(out, sessionToken, msg) ==
    LET tunnelWs == TunnelsGet(sessionToken) IN
    IF tunnelWs # 0 /\ readyState[tunnelWs] = "OPEN"
    THEN IF sendThrows[tunnelWs]
         THEN out    \* catch (error): logged
         ELSE [out EXCEPT ![tunnelWs] = Append(@, msg)]
    ELSE out

\* ws.close(code, reason) by the server: the closing handshake starts.
ServerClose(ws, code) ==
    /\ closeCode' = [closeCode EXCEPT ![ws] = code]
    /\ readyState' = [readyState EXCEPT ![ws] = IF @ \in {"NEW", "OPEN"} THEN "CLOSING" ELSE @]

\* ------------------------------------------------------ the connection router
\* The tunnel branch of wss.on('connection'): register, confirm, attach handlers.
AcceptTunnel(ws, sessionToken) ==
    /\ kind' = [kind EXCEPT ![ws] = "tunnel"]
    /\ token' = [token EXCEPT ![ws] = sessionToken]
    /\ readyState' = [readyState EXCEPT ![ws] = "OPEN"]
    /\ activeTunnels' = TunnelsSet(sessionToken, ws)
    /\ tunnelOut' = [tunnelOut EXCEPT ![ws] = Append(@, TunnelMsg("tunnel_connected", ws, 0))]
    /\ UNCHANGED << closeCode, callOut, pc, studentConfig, openaiApiKey, req, nReq,
                    callMetadata,
                    conversationHistory, tasks,
                    fetched, lastEvent, sendThrows, inputs, unheard >>

\* The call branch of wss.on('connection') up to "await fetch(settingsUrl)".
AcceptCall(ws, sessionToken) ==
    /\ kind' = [kind EXCEPT ![ws] = "call"]
    /\ token' = [token EXCEPT ![ws] = sessionToken]
    /\ readyState' = [readyState EXCEPT ![ws] = "OPEN"]
    /\ pc' = [pc EXCEPT ![ws] = "fetching"]
    /\ UNCHANGED << closeCode, activeTunnels, tunnelOut, callOut, studentConfig,
                    openaiApiKey, req, nReq, callMetadata,
                    conversationHistory, tasks,
                    fetched, lastEvent, sendThrows, inputs, unheard >>

\* The two early returns of wss.on('connection'): ws.close(1008, ...).
RejectConnection(ws) ==
    /\ kind' = [kind EXCEPT ![ws] = "rejected"]
    /\ ServerClose(ws, PolicyViolation)
    /\ UNCHANGED << token, activeTunnels, tunnelOut, callOut, pc, studentConfig,
                    openaiApiKey, req, nReq, callMetadata,
                    conversationHistory, tasks,
                    fetched, lastEvent, sendThrows, inputs, unheard >>

\* wss.on('connection', async (ws, req) => ...) for a connection with path url.
Connect(url) ==
    /\ nConns < MaxConns
    /\ LET ws == nConns + 1
           isTunnelConnection == StartsWith(url, TUNNEL_PREFIX)
           isCallConnection == StartsWith(url, WS_PREFIX)
           sessionToken == SessionTokenOf(url)
       IN
       /\ nConns' = ws
       /\ reqUrl' = [reqUrl EXCEPT ![ws] = url]
       /\ IF ~isTunnelConnection /\ ~isCallConnection
          THEN RejectConnection(ws)
          ELSE IF TokenRejected(sessionToken)
          THEN RejectConnection(ws)
          ELSE IF isTunnelConnection
          THEN AcceptTunnel(ws, sessionToken)
          ELSE AcceptCall(ws, sessionToken)

\* The peer of an open connection starts closing it (readyState 2).
BeginClose(ws) ==
    /\ readyState[ws] = "OPEN"
    /\ readyState' = [readyState EXCEPT ![ws] = "CLOSING"]
    /\ UNCHANGED << nConns, kind, token, closeCode, activeTunnels, tunnelOut, callOut,
                    pc, studentConfig, openaiApiKey, req, nReq, callMetadata,
                    conversationHistory, tasks,
                    reqUrl, fetched, lastEvent, sendThrows, inputs, unheard >>

\* send() on the open tunnel connection ws starts to throw.
TunnelSendBreaks(ws) ==
    /\ kind[ws] = "tunnel"
    /\ readyState[ws] = "OPEN"
    /\ ~sendThrows[ws]
    /\ sendThrows' = [sendThrows EXCEPT ![ws] = TRUE]
    /\ UNCHANGED << nConns, kind, token, readyState, closeCode, activeTunnels, tunnelOut,
                    callOut, pc, studentConfig, openaiApiKey, req, nReq, callMetadata,
                    conversationHistory, tasks, reqUrl, fetched, lastEvent, inputs,
                    unheard >>

\* ws.on('close') of a tunnel connection: activeTunnels.delete(sessionToken).
TunnelClose(ws) ==
    /\ kind[ws] = "tunnel"
    /\ readyState[ws] = "CLOSING"
    /\ readyState' = [readyState EXCEPT ![ws] = "CLOSED"]
    /\ activeTunnels' = TunnelsDelete(token[ws])
    /\ UNCHANGED << nConns, kind, token, closeCode, tunnelOut, callOut, pc,
                    studentConfig, openaiApiKey, req, nReq, callMetadata,
                    conversationHistory, tasks,
                    reqUrl, fetched, lastEvent, sendThrows, inputs, unheard >>

\* ----------------------------------------------------- the credential exchange
\* The body of the Promise of requestCredentialsThroughTunnel: a fresh requestId,
\* the timeout armed, the listener added (the send is the caller's).
NewRequest(requestId, tunnelWs) ==
    [NoRequest EXCEPT !.requestId = requestId, !.tunnelWs = tunnelWs,
                      !.timeout = "armed", !.listener = TRUE, !.outcome = "pending"]

\* messageHandler without the comparison of the requestId.
messageHandlerAnyId(r, data) ==
    IF data.json /\ data.type = "credential_response"
    THEN [r EXCEPT !.timeout = IF @ = "armed" THEN "cleared" ELSE @,
                   !.elapsed = 0,
                   !.listener = FALSE,
                   !.settled = @ + 1,
                   !.outcome = IF @ = "pending" THEN "resolved" ELSE @,
                   !.value = IF r.outcome = "pending" THEN data.openaiApiKey ELSE @,
                   !.by = IF r.outcome = "pending" THEN data ELSE @]
    ELSE [r EXCEPT !.ignored = TRUE]

\* messageHandler without clearTimeout(timeout).
messageHandlerNoClear(r, data) ==
    IF data.json /\ data.type = "credential_response" /\ data.requestId = r.requestId
    THEN [r EXCEPT !.listener = FALSE,
                   !.settled = @ + 1,
                   !.outcome = IF @ = "pending" THEN "resolved" ELSE @,
                   !.value = IF r.outcome = "pending" THEN data.openaiApiKey ELSE @,
                   !.by = IF r.outcome = "pending" THEN data ELSE @]
    ELSE [r EXCEPT !.ignored = TRUE]

\* messageHandler resolving with data.secret.
messageHandlerSecret(r, data) ==
    IF data.json /\ data.type = "credential_response" /\ data.requestId = r.requestId
    THEN [r EXCEPT !.timeout = IF @ = "armed" THEN "cleared" ELSE @,
                   !.elapsed = 0,
                   !.listener = FALSE,
                   !.settled = @ + 1,
                   !.outcome = IF @ = "pending" THEN "resolved" ELSE @,
                   !.value = IF r.outcome = "pending" THEN data.secret ELSE @,
                   !.by = IF r.outcome = "pending" THEN data ELSE @]
    ELSE [r EXCEPT !.ignored = TRUE]

\* messageHandler(event) of the request r on the observer's message data.
messageHandler(r, data) ==
    IF data.json /\ data.type = "credential_response" /\ data.requestId = r.requestId
    THEN [r EXCEPT !.timeout = IF @ = "armed" THEN "cleared" ELSE @,
                   !.elapsed = 0,
                   !.listener = FALSE,
                   !.settled = @ + 1,
                   !.outcome = IF @ = "pending" THEN "resolved" ELSE @,
                   !.value = IF r.outcome = "pending" THEN data.openaiApiKey ELSE @,
                   !.by = IF r.outcome = "pending" THEN data ELSE @]
    ELSE [r EXCEPT !.ignored = TRUE]

\* The setTimeout callback without removeEventListener.
timeoutCallbackKeepsListener(r) ==
    [r EXCEPT !.timeout = "fired",
              !.firedAt = r.elapsed,
              !.elapsed = 0,
              !.settled = @ + 1,
              !.outcome = IF @ = "pending" THEN "timeout" ELSE @]

\* The setTimeout callback removing the listener without rejecting the promise.
timeoutCallbackNoReject(r) ==
    [r EXCEPT !.timeout = "fired",
              !.firedAt = r.elapsed,
              !.elapsed = 0,
              !.listener = FALSE]

\* The setTimeout callback of the request r: remove the listener, reject.
timeoutCallback(r) ==
    [r EXCEPT !.timeout = "fired",
              !.firedAt = r.elapsed,
              !.elapsed = 0,
              !.listener = FALSE,
              !.settled = @ + 1,
              !.outcome = IF @ = "pending" THEN "timeout" ELSE @]

\* The timer of r is due: setTimeout's delay has passed.
TimerDue(r) == r.timeout = "armed" /\ r.elapsed >= CredentialTimeout

\* The secret chosen without the fallback to the server-wide default.
ResolveApiKeyNoFallback(settled) == settled

\* handleConversationRelay from the value of "await requestCredentialsFn" (or the
\* stored key) to "new OpenAI({apiKey})": the secret the call uses. settled is
\* the stored key, the value the exchange resolved with, or Undefined when it
\* returned null or threw.
ResolveApiKey(settled) == IF Truthy(settled) THEN settled ELSE DefaultKey

\* The value of "let openaiApiKey" after the try/catch around the exchange.
ExchangeResult(r) == IF r.outcome = "resolved" THEN r.value ELSE Undefined


\* The continuation with a secret that is resolved again when a response to a
\* request that timed out arrives after all.
ResumeCallsLate(newReq) ==
    LET settles(c) == req[c].outcome = "pending" /\ newReq[c].outcome # "pending"
        late(c) == newReq[c].late /\ ~req[c].late
    IN
    /\ openaiApiKey' = [c \in Conns |->
            IF settles(c) THEN ResolveApiKey(ExchangeResult(newReq[c]))
            ELSE IF late(c) THEN "sk-tunnel" ELSE openaiApiKey[c]]
    /\ pc' = [c \in Conns |-> IF settles(c) THEN "ready" ELSE pc[c]]

\* The continuation of handleConversationRelay once "await requestCredentialsFn"
\* has settled, for every call whose request settles in this step: the secret is
\* chosen and the handlers are attached.
ResumeCalls(newReq) ==
    LET settles(c) == req[c].outcome = "pending" /\ newReq[c].outcome # "pending" IN
    /\ openaiApiKey' = [c \in Conns |->
            IF settles(c) THEN ResolveApiKey(ExchangeResult(newReq[c])) ELSE openaiApiKey[c]]
    /\ pc' = [c \in Conns |-> IF settles(c) THEN "ready" ELSE pc[c]]

\* The messages an observer sends: JSON objects with or without the fields the
\* code reads, and one text that is not JSON.
ObserverMessages ==
    [json : {TRUE}, type : {"credential_response"}, requestId : 0 .. MaxConns - 1,
     openaiApiKey : {Undefined, "sk-tunnel"}, secret : {Undefined, "sk-other"}]
    \cup { [NoMessage EXCEPT !.json = TRUE, !.type = "ack", !.requestId = id] :
              id \in 0 .. MaxConns - 1 }
    \cup { NoMessage }

\* A 'message' event on the tunnel connection ws: the router's logging listener
\* (no effect) and the messageHandler of every request listening on ws.
TunnelMessage(ws, data) ==
    /\ kind[ws] = "tunnel"
    /\ readyState[ws] = "OPEN"
    /\ LET newReq == [c \in Conns |->
               IF req[c].tunnelWs = ws /\ req[c].listener
               THEN messageHandler(req[c], data)
               ELSE IF /\ req[c].tunnelWs = ws
                       /\ req[c].outcome = "timeout"
                       /\ data.json /\ data.type = "credential_response"
                       /\ data.requestId = req[c].requestId
               THEN [req[c] EXCEPT !.late = TRUE]
               ELSE req[c]]
       IN /\ req' = newReq
          /\ ResumeCalls(newReq)
    /\ UNCHANGED << nConns, kind, token, readyState, closeCode, activeTunnels,
                    tunnelOut, callOut, studentConfig, nReq, callMetadata,
                    conversationHistory, tasks,
                    reqUrl, fetched, lastEvent, sendThrows, inputs, unheard >>

\* TickMs pass while a credential timeout is armed and not yet due.
Tick ==
    /\ \E c \in Conns : req[c].timeout = "armed"
    /\ \A c \in Conns : ~TimerDue(req[c])
    /\ req' = [c \in Conns |->
                 IF req[c].timeout = "armed" THEN [req[c] EXCEPT !.elapsed = @ + TickMs] ELSE req[c]]
    /\ UNCHANGED << nConns, kind, token, readyState, closeCode, activeTunnels, tunnelOut,
                    callOut, pc, studentConfig, openaiApiKey, nReq, callMetadata,
                    conversationHistory, tasks,
                    reqUrl, fetched, lastEvent, sendThrows, inputs, unheard >>

\* The credential timeout of the call ws fires.
CredentialTimeoutFires(ws) ==
    /\ TimerDue(req[ws])
    /\ LET newReq == [req EXCEPT ![ws] = timeoutCallback(req[ws])]
       IN /\ req' = newReq
          /\ ResumeCalls(newReq)
    /\ UNCHANGED << nConns, kind, token, readyState, closeCode, activeTunnels,
                    tunnelOut, callOut, studentConfig, nReq, callMetadata,
                    conversationHistory, tasks,
                    reqUrl, fetched, lastEvent, sendThrows, inputs, unheard >>

\* ------------------------------------------------------------ the call branch
\* What "await fetch(settingsUrl)" and the parsing of its body come to.
FetchFailures == {"throw", "notOk", "badJson", "noSettings", "badTools"}

FetchFailure(f) == [outcome |-> f, settings |-> NoConfig]

FetchSuccess(cfg) == [outcome |-> "ok", settings |-> cfg]

\* The status the call branch closes the connection with on a failed retrieval.
FailureCloseCode(f) == IF f \in {"throw", "badTools"} THEN ServerError ELSE PolicyViolation

\* The check of the registry entry without the readyState.
NoActiveTunnelAbsentOnly(tunnelWs) == tunnelWs = 0

\* !tunnelWs || tunnelWs.readyState !== 1
NoActiveTunnel(tunnelWs) ==
    IF tunnelWs = 0 THEN TRUE ELSE readyState[tunnelWs] # "OPEN"

\* handleConversationRelay(ws, studentConfig, sessionToken, ...) up to its first
\* await, or to the attaching of the handlers when it awaits nothing that waits:
\* requestCredentialsThroughTunnel returns null at once without an open tunnel.
StartRelay(ws, cfg) ==
    LET tunnelWs == TunnelsGet(token[ws]) IN
    /\ studentConfig' = [studentConfig EXCEPT ![ws] = cfg]
    /\ IF Truthy(cfg.openai_api_key)
       THEN /\ openaiApiKey' = [openaiApiKey EXCEPT ![ws] = ResolveApiKey(cfg.openai_api_key)]
            /\ pc' = [pc EXCEPT ![ws] = "ready"]
            /\ UNCHANGED << req, nReq, tunnelOut >>
       ELSE IF NoActiveTunnel(tunnelWs)
       THEN /\ openaiApiKey' = [openaiApiKey EXCEPT ![ws] = ResolveApiKey(Undefined)]
            /\ pc' = [pc EXCEPT ![ws] = "ready"]
            /\ req' = [req EXCEPT ![ws] = [NoRequest EXCEPT !.outcome = "unavailable"]]
            /\ UNCHANGED << nReq, tunnelOut >>
       ELSE IF sendThrows[tunnelWs]
       THEN \* tunnelWs.send throws in the Promise's executor, after the timer and
            \* the listener were set: the promise is rejected, the catch around
            \* "await requestCredentialsFn" takes it.
            /\ nReq' = nReq + 1
            /\ req' = [req EXCEPT ![ws] =
                          [NewRequest(nReq + 1, tunnelWs) EXCEPT !.outcome = "sendFailed",
                                                                 !.settled = 1]]
            /\ openaiApiKey' = [openaiApiKey EXCEPT ![ws] = ResolveApiKey(Undefined)]
            /\ pc' = [pc EXCEPT ![ws] = "ready"]
            /\ UNCHANGED tunnelOut
       ELSE /\ nReq' = nReq + 1
            /\ req' = [req EXCEPT ![ws] = NewRequest(nReq + 1, tunnelWs)]
            /\ tunnelOut' = [tunnelOut EXCEPT ![tunnelWs] =
                                Append(@, TunnelMsg("credential_request", ws, nReq + 1))]
            /\ pc' = [pc EXCEPT ![ws] = "awaitCredentials"]
            /\ UNCHANGED openaiApiKey

\* The call branch with a failed credential exchange reaching the catch of the
\* router: ws.close(1011, 'Server error') after the engine has started.
SettingsFetchedUncaught(ws, response) ==
    /\ pc[ws] = "fetching"
    /\ fetched' = [fetched EXCEPT ![ws] = response.outcome]
    /\ IF response.outcome # "ok"
       THEN /\ ServerClose(ws, FailureCloseCode(response.outcome))
            /\ pc' = [pc EXCEPT ![ws] = "refused"]
            /\ UNCHANGED << studentConfig, openaiApiKey, req, nReq, tunnelOut >>
       ELSE /\ StartRelay(ws, response.settings)
            /\ IF ~Truthy(response.settings.openai_api_key)
                  /\ NoActiveTunnel(TunnelsGet(token[ws]))
               THEN ServerClose(ws, ServerError)
               ELSE UNCHANGED << readyState, closeCode >>
    /\ UNCHANGED << nConns, kind, token, activeTunnels, callOut, callMetadata,
                    conversationHistory, tasks,
                    reqUrl, lastEvent, sendThrows, inputs, unheard >>

\* The call branch of wss.on('connection') from the settling of the fetch on.
SettingsFetched(ws, response) ==
    /\ pc[ws] = "fetching"
    /\ fetched' = [fetched EXCEPT ![ws] = response.outcome]
    /\ IF response.outcome # "ok"
       THEN /\ ServerClose(ws, FailureCloseCode(response.outcome))
            /\ pc' = [pc EXCEPT ![ws] = "refused"]
            /\ UNCHANGED << studentConfig, openaiApiKey, req, nReq, tunnelOut >>
       ELSE /\ StartRelay(ws, response.settings)
            /\ UNCHANGED << readyState, closeCode >>
    /\ UNCHANGED << nConns, kind, token, activeTunnels, callOut, callMetadata,
                    conversationHistory, tasks,
                    reqUrl, lastEvent, sendThrows, inputs, unheard >>


\* --------------------------------------------------- the conversation engine
\* The built-in system prompt (defaultPrompt).
DefaultPrompt == "You are a helpful assistant. (voice guidelines)"
\* The fixed apology of the catch (aiError) branch.
Apology == "I apologize, I encountered an error processing your request."

\* A turn of conversationHistory. "prompt" is the prompt event that appended it.
Turn(role, content, tool_calls, tool_call_id, k) ==
    [role |-> role, content |-> content, tool_calls |-> tool_calls,
     tool_call_id |-> tool_call_id, prompt |-> k]

\* A message on the call connection: {type: 'text', token, last: true}. "prompt"
\* is the prompt event it answers, "open" whether the socket was open at ws.send.
TextMsg(tok, k, open) ==
    [type |-> "text", token |-> tok, last |-> TRUE, prompt |-> k, open |-> open]

\* A mirrored event about the prompt event k of the call from.
TurnMsg(type, from, k) == [TunnelMsg(type, from, 0) EXCEPT !.prompt = k]

\* sendTunnelEvent called once per message of msgs, in order.
RECURSIVE sendTunnelEvents(_, _, _)
sendTunnelEvents(out, sessionToken, msgs) ==
    IF msgs = << >> THEN out
    ELSE sendTunnelEvents(sendTunnelEvent(out, sessionToken, Head(msgs)),
                          sessionToken, Tail(msgs))

\* completionParams with the last turn of the history only.
FirstParamsLastOnly(cfg, history) ==
    [messages |-> << Turn("system",
                          IF Truthy(cfg.system_prompt) THEN cfg.system_prompt
                          ELSE DefaultPrompt,
                          << >>, 0, 0) >> \o << history[Len(history)] >>,
     tools |-> IF Len(cfg.tools) > 0 THEN cfg.tools ELSE << >>,
     tool_choice |-> IF Len(cfg.tools) > 0 THEN "auto" ELSE Undefined]

\* completionParams with tools and tool_choice attached whatever the configuration.
FirstParamsAlwaysTools(cfg, history) ==
    [messages |-> << Turn("system",
                          IF Truthy(cfg.system_prompt) THEN cfg.system_prompt
                          ELSE DefaultPrompt,
                          << >>, 0, 0) >> \o history,
     tools |-> cfg.tools,
     tool_choice |-> "auto"]

\* completionParams of the first invocation of a prompt.
FirstParams(cfg, history) ==
    [messages |-> << Turn("system",
                          IF Truthy(cfg.system_prompt) THEN cfg.system_prompt
                          ELSE DefaultPrompt,
                          << >>, 0, 0) >> \o history,
     tools |-> IF Len(cfg.tools) > 0 THEN cfg.tools ELSE << >>,
     tool_choice |-> IF Len(cfg.tools) > 0 THEN "auto" ELSE Undefined]

\* The parameters of the invocation after tool execution (finalCompletion).
FinalParams(cfg, history) ==
    [messages |-> << Turn("system", cfg.system_prompt, << >>, 0, 0) >> \o history,
     tools |-> << >>,
     tool_choice |-> Undefined]

\* JSON.parse(toolCall.function.arguments) returns (does not throw).
JsonValid(arguments) == arguments = "{}"

\* executeToolCall(name, args, studentConfig): the placeholder result, serialized.
executeToolCall(name) == "{success:true,message:Tool " \o name \o " executed}"

\* The tool invocations of a model response: ids and tool names by position.
ToolCallLists ==
    UNION { { [i \in 1 .. n |-> [id |-> i, name |-> IF i = 1 THEN "lookup" ELSE "book",
                                 arguments |-> a[i]]] :
                a \in [1 .. n -> {"{}", "{"}] } : n \in 1 .. MaxToolCalls }

Texts == {"It is sunny.", "Sure."}

\* What an invocation of the model comes to: it throws, it returns a response the
\* code cannot read (no choices), or a message with text or with tool invocations
\* (these only when tools were offered).
Replies(params) ==
    { [kind |-> kd, content |-> Undefined, has_tool_calls |-> FALSE, tool_calls |-> << >>] :
         kd \in {"throw", "malformed"} }
    \cup { [kind |-> "ok", content |-> t, has_tool_calls |-> FALSE, tool_calls |-> << >>] :
         t \in Texts }
    \cup IF Len(params.tools) > 0
         THEN { [kind |-> "ok", content |-> Undefined, has_tool_calls |-> TRUE,
                 tool_calls |-> tc] : tc \in ToolCallLists }
         ELSE {}

\* What the invocation after tool execution comes to: as any invocation, or a
\* message with text that carries a tool invocation all the same (the code reads
\* finalCompletion.choices[0].message.content and nothing else).
FinalReplies(params) ==
    Replies(params)
    \cup { [kind |-> "ok", content |-> "Sure.", has_tool_calls |-> TRUE,
            tool_calls |-> << [id |-> 3, name |-> "lookup", arguments |-> "{}"] >>] }

\* Every response a model invocation can come to.
AnyReply == Replies([tools |-> <<"lookup", "book">>]) \cup FinalReplies([tools |-> << >>])

\* No reply: the reply field of an input that is a prompt event.
NoReply ==
    [kind |-> "none", content |-> Undefined, has_tool_calls |-> FALSE, tool_calls |-> << >>]

\* An input of a call's prompt handling: the prompt event k ("prompt"), or the
\* reply that settled a model invocation of the prompt event k ("reply").
Input(event, k, reply) == [event |-> event, prompt |-> k, reply |-> reply]

\* A prompt event in progress: where it stands ("model1", "model2": awaiting the
\* first or the second invocation; "done"), the parameters of the invocations it
\* made, and where an error was caught ("none" if nowhere).
Task(stage, calls, failed) == [stage |-> stage, calls |-> calls, failed |-> failed]

\* The events of a call connection: JSON objects with a type, and one text that
\* is not JSON.
CallEvent(type) == [json |-> TRUE, type |-> type, voicePrompt |-> "What's the weather?"]

NotJsonEvent == [json |-> FALSE, type |-> "", voicePrompt |-> ""]

PromptEvents == { CallEvent("prompt") }

OtherEvents == { CallEvent(t) : t \in {"setup", "dtmf", "interrupt", "mystery"} }
                   \cup { NotJsonEvent }

\* The payload of a setup event.
SetupData ==
    [callSid |-> "CA1", from |-> "+15550001", to |-> "+15550002",
     direction |-> "inbound", sessionId |-> "VX1"]

\* ws.send(...) on the call connection ws.
CallSend(out, ws, tok, k) ==
    [out EXCEPT ![ws] = Append(@, TextMsg(tok, k, readyState[ws] = "OPEN"))]

\* The catch branch appending the apology to the history as an assistant turn.
CatchAiErrorRecorded(ws, k, out, history, failed) ==
    /\ tunnelOut' = sendTunnelEvent(out, token[ws], TurnMsg("error", ws, k))
    /\ callOut' = CallSend(callOut, ws, Apology, k)
    /\ conversationHistory' =
          [conversationHistory EXCEPT ![ws] =
              Append(history, Turn("assistant", Apology, << >>, 0, k))]
    /\ tasks' = [tasks EXCEPT ![ws][k] = Task("done", @.calls, failed)]

\* The catch branch mirroring the error without sending the apology.
CatchAiErrorSilent(ws, k, out, history, failed) ==
    /\ tunnelOut' = sendTunnelEvent(out, token[ws], TurnMsg("error", ws, k))
    /\ callOut' = callOut
    /\ conversationHistory' = [conversationHistory EXCEPT ![ws] = history]
    /\ tasks' = [tasks EXCEPT ![ws][k] = Task("done", @.calls, failed)]

\* The catch (aiError) branch for the prompt event k of ws, entered with the
\* observers' log out: mirror the error, send the apology.
CatchAiError(ws, k, out, history, failed) ==
    /\ tunnelOut' = sendTunnelEvent(out, token[ws], TurnMsg("error", ws, k))
    /\ callOut' = CallSend(callOut, ws, Apology, k)
    /\ conversationHistory' = [conversationHistory EXCEPT ![ws] = history]
    /\ tasks' = [tasks EXCEPT ![ws][k] = Task("done", @.calls, failed)]

\* The final answer sent and mirrored without the push to the history.
RespondSendOnly(ws, k, out, history, aiResponse, afterTools) ==
    /\ conversationHistory' = [conversationHistory EXCEPT ![ws] = history]
    /\ tunnelOut' = sendTunnelEvent(out, token[ws],
                        TurnMsg(IF afterTools THEN "ai_response_after_tools"
                                ELSE "ai_response", ws, k))
    /\ callOut' = CallSend(callOut, ws, aiResponse, k)
    /\ tasks' = [tasks EXCEPT ![ws][k] = Task("done", @.calls, "none")]

\* The final answer with a mirror send whose exception is not caught: the throw
\* of tunnelWs.send, after the push to the history, reaches catch (aiError).
RespondMirrorUncaught(ws, k, out, history, aiResponse, afterTools) ==
    LET tunnelWs == TunnelsGet(token[ws]) IN
    IF tunnelWs # 0 /\ readyState[tunnelWs] = "OPEN" /\ sendThrows[tunnelWs]
    THEN CatchAiError(ws, k, out,
                      Append(history, Turn("assistant", aiResponse, << >>, 0, k)),
                      "mirror")
    ELSE /\ conversationHistory' =
               [conversationHistory EXCEPT ![ws] =
                   Append(history, Turn("assistant", aiResponse, << >>, 0, k))]
         /\ tunnelOut' = sendTunnelEvent(out, token[ws],
                             TurnMsg(IF afterTools THEN "ai_response_after_tools"
                                     ELSE "ai_response", ws, k))
         /\ callOut' = CallSend(callOut, ws, aiResponse, k)
         /\ tasks' = [tasks EXCEPT ![ws][k] = Task("done", @.calls, "none")]

\* The final answer aiResponse of the prompt event k: history, mirror, send.
Respond(ws, k, out, history, aiResponse, afterTools) ==
    /\ conversationHistory' =
          [conversationHistory EXCEPT ![ws] =
              Append(history, Turn("assistant", aiResponse, << >>, 0, k))]
    /\ tunnelOut' = sendTunnelEvent(out, token[ws],
                        TurnMsg(IF afterTools THEN "ai_response_after_tools"
                                ELSE "ai_response", ws, k))
    /\ callOut' = CallSend(callOut, ws, aiResponse, k)
    /\ tasks' = [tasks EXCEPT ![ws][k] = Task("done", @.calls, "none")]


\* case 'prompt' with a history that the calls of one session token share.
HandlePromptSharedHistory(ws, data) ==
    LET k == Len(tasks[ws]) + 1
        history == Append(conversationHistory[ws],
                          Turn("user", data.voicePrompt, << >>, 0, k))
    IN
    /\ Len(tasks[ws]) < MaxPrompts
    /\ tunnelOut' = sendTunnelEvent(tunnelOut, token[ws], TurnMsg("user_spoke", ws, k))
    /\ conversationHistory' =
          [c \in Conns |->
              IF c = ws THEN history
              ELSE IF kind[c] = "call" /\ token[c] = token[ws]
              THEN Append(conversationHistory[c], Turn("user", data.voicePrompt, << >>, 0, k))
              ELSE conversationHistory[c]]
    /\ tasks' = [tasks EXCEPT ![ws] =
                    Append(@, Task("model1", << FirstParams(studentConfig[ws], history) >>,
                                   "none"))]
    /\ inputs' = [inputs EXCEPT ![ws] = Append(@, Input("prompt", k, NoReply))]
    /\ UNCHANGED << callMetadata, callOut >>

\* case 'prompt' up to "await openai.chat.completions.create(completionParams)".
HandlePrompt(ws, data) ==
    LET k == Len(tasks[ws]) + 1
        history == Append(conversationHistory[ws],
                          Turn("user", data.voicePrompt, << >>, 0, k))
    IN
    /\ Len(tasks[ws]) < MaxPrompts
    /\ tunnelOut' = sendTunnelEvent(tunnelOut, token[ws], TurnMsg("user_spoke", ws, k))
    /\ conversationHistory' = [conversationHistory EXCEPT ![ws] = history]
    /\ tasks' = [tasks EXCEPT ![ws] =
                    Append(@, Task("model1", << FirstParams(studentConfig[ws], history) >>,
                                   "none"))]
    /\ inputs' = [inputs EXCEPT ![ws] = Append(@, Input("prompt", k, NoReply))]
    /\ UNCHANGED << callMetadata, callOut >>

\* The log of the observer of the call ws has room for another event.
LogRoom(ws) ==
    LET tunnelWs == TunnelsGet(token[ws]) IN
    IF tunnelWs = 0 THEN TRUE ELSE Len(tunnelOut[tunnelWs]) < MaxLog

\* The cases of the switch other than 'prompt' with a default case that mirrors
\* the event it does not recognize.
HandleOtherMirrorsUnknown(ws, data) ==
    /\ LogRoom(ws)
    /\ callMetadata' = IF data.json /\ data.type = "setup"
                       THEN [callMetadata EXCEPT ![ws] = SetupData]
                       ELSE callMetadata
    /\ tunnelOut' =
          IF ~data.json THEN tunnelOut
          ELSE IF data.type = "setup"
          THEN sendTunnelEvent(tunnelOut, token[ws], TunnelMsg("call_setup", ws, 0))
          ELSE IF data.type = "dtmf"
          THEN sendTunnelEvent(tunnelOut, token[ws], TunnelMsg("dtmf_pressed", ws, 0))
          ELSE IF data.type = "interrupt"
          THEN sendTunnelEvent(tunnelOut, token[ws], TunnelMsg("interrupted", ws, 0))
          ELSE sendTunnelEvent(tunnelOut, token[ws], TunnelMsg("unknown_event", ws, 0))
    /\ UNCHANGED << conversationHistory, tasks, callOut, inputs >>

\* The cases of the switch other than 'prompt' with a 'setup' that leaves the
\* provider's session identifier out of the metadata.
HandleOtherNoSessionId(ws, data) ==
    /\ LogRoom(ws)
    /\ callMetadata' = IF data.json /\ data.type = "setup"
                       THEN [callMetadata EXCEPT ![ws] =
                                [SetupData EXCEPT !.sessionId = Undefined]]
                       ELSE callMetadata
    /\ tunnelOut' =
          IF ~data.json THEN tunnelOut
          ELSE IF data.type = "setup"
          THEN sendTunnelEvent(tunnelOut, token[ws], TunnelMsg("call_setup", ws, 0))
          ELSE IF data.type = "dtmf"
          THEN sendTunnelEvent(tunnelOut, token[ws], TunnelMsg("dtmf_pressed", ws, 0))
          ELSE IF data.type = "interrupt"
          THEN sendTunnelEvent(tunnelOut, token[ws], TunnelMsg("interrupted", ws, 0))
          ELSE tunnelOut
    /\ UNCHANGED << conversationHistory, tasks, callOut, inputs >>

\* The cases of the switch other than 'prompt', and a message that is not JSON.
HandleOther(ws, data) ==
    /\ LogRoom(ws)
    /\ callMetadata' = IF data.json /\ data.type = "setup"
                       THEN [callMetadata EXCEPT ![ws] = SetupData]
                       ELSE callMetadata
    /\ tunnelOut' =
          IF ~data.json THEN tunnelOut
          ELSE IF data.type = "setup"
          THEN sendTunnelEvent(tunnelOut, token[ws], TunnelMsg("call_setup", ws, 0))
          ELSE IF data.type = "dtmf"
          THEN sendTunnelEvent(tunnelOut, token[ws], TunnelMsg("dtmf_pressed", ws, 0))
          ELSE IF data.type = "interrupt"
          THEN sendTunnelEvent(tunnelOut, token[ws], TunnelMsg("interrupted", ws, 0))
          ELSE tunnelOut
    /\ UNCHANGED << conversationHistory, tasks, callOut, inputs >>

\* ws.on('message', async (message) => ...) of the call connection ws, up to its
\* first await.
OnMessage(ws, data) ==
    /\ pc[ws] = "ready"
    /\ readyState[ws] = "OPEN"
    /\ IF data.json /\ data.type = "prompt"
       THEN HandlePrompt(ws, data)
       ELSE HandleOther(ws, data)
    /\ lastEvent' = IF data.json THEN [lastEvent EXCEPT ![ws] = data.type] ELSE lastEvent
    /\ UNCHANGED << nConns, kind, token, readyState, closeCode, activeTunnels, pc,
                    studentConfig, openaiApiKey, req, nReq, reqUrl, fetched, sendThrows, unheard >>

\* A message arrives on the call connection ws before handleConversationRelay
\* has come to ws.on('message', ...): the connection emits 'message' with no
\* listener attached, and nothing takes the event.
MessageUnheard(ws, data) ==
    /\ kind[ws] = "call"
    /\ readyState[ws] = "OPEN"
    /\ pc[ws] \in {"fetching", "awaitCredentials"}
    /\ data.json
    /\ unheard' = [unheard EXCEPT ![ws] = @ \cup {data.type}]
    /\ UNCHANGED << nConns, kind, token, readyState, closeCode, activeTunnels, tunnelOut,
                    callOut, pc, studentConfig, openaiApiKey, req, nReq, callMetadata,
                    conversationHistory, tasks, reqUrl, fetched, lastEvent, sendThrows,
                    inputs >>

\* The tool turns of tool_calls all carrying the id of the first invocation.
ToolTurnsFirstId(tool_calls, n, k) ==
    [i \in 1 .. n |->
        Turn("tool", executeToolCall(tool_calls[i].name), << >>, tool_calls[1].id, k)]

\* The tool turns of the first n invocations of tool_calls.
ToolTurns(tool_calls, n, k) ==
    [i \in 1 .. n |->
        Turn("tool", executeToolCall(tool_calls[i].name), << >>, tool_calls[i].id, k)]

\* The tool loop stopping after the first invocation.
ExecutedFirstOnly(tool_calls) == 1

\* The number of invocations of tool_calls executed before an argument text that
\* does not parse stops the loop (all of them if every one parses).
Executed(tool_calls) ==
    LET bad == { i \in 1 .. Len(tool_calls) : ~JsonValid(tool_calls[i].arguments) }
    IN IF bad = {} THEN Len(tool_calls)
       ELSE (CHOOSE i \in bad : \A j \in bad : i <= j) - 1

\* The prompt handler from the first model response to its next await or its end.
AfterFirstInvocation(ws, k, reply) ==
    LET history == conversationHistory[ws]
        calls == reply.tool_calls
        n == Executed(calls)
        usage == sendTunnelEvent(tunnelOut, token[ws], TurnMsg("token_usage", ws, k))
        started == sendTunnelEvents(usage, token[ws],
                      [i \in 1 .. Len(calls) |-> TurnMsg("tool_call_start", ws, k)])
        results == sendTunnelEvents(started, token[ws],
                      [i \in 1 .. n |-> TurnMsg("tool_call_result", ws, k)])
        withTools == Append(history, Turn("assistant", reply.content, calls, 0, k))
                        \o ToolTurns(calls, n, k)
    IN
    IF reply.kind = "throw"
    THEN CatchAiError(ws, k, tunnelOut, history, "invocation1")
    ELSE IF reply.kind = "malformed"
    THEN CatchAiError(ws, k, tunnelOut, history, "response1")
    ELSE IF ~reply.has_tool_calls
    THEN Respond(ws, k, usage, history, reply.content, FALSE)
    ELSE IF n < Len(calls)
    THEN CatchAiError(ws, k, results, withTools, "arguments")
    ELSE /\ tunnelOut' = results
         /\ conversationHistory' = [conversationHistory EXCEPT ![ws] = withTools]
         /\ tasks' = [tasks EXCEPT ![ws][k] =
                Task("model2", Append(@.calls, FinalParams(studentConfig[ws], withTools)),
                     "none")]
         /\ UNCHANGED callOut

\* The response of the invocation after tool execution handled as the first
\* one is: the tools it names are executed and their tool turns recorded.
AfterFinalInvocationExecutes(ws, k, reply) ==
    IF reply.kind = "throw"
    THEN CatchAiError(ws, k, tunnelOut, conversationHistory[ws], "invocation2")
    ELSE IF reply.kind = "malformed"
    THEN CatchAiError(ws, k, tunnelOut, conversationHistory[ws], "response2")
    ELSE Respond(ws, k, tunnelOut,
                 conversationHistory[ws] \o ToolTurns(reply.tool_calls, Len(reply.tool_calls), k),
                 reply.content, TRUE)

\* The prompt handler from the response of the invocation after tool execution.
AfterFinalInvocation(ws, k, reply) ==
    IF reply.kind = "throw"
    THEN CatchAiError(ws, k, tunnelOut, conversationHistory[ws], "invocation2")
    ELSE IF reply.kind = "malformed"
    THEN CatchAiError(ws, k, tunnelOut, conversationHistory[ws], "response2")
    ELSE Respond(ws, k, tunnelOut, conversationHistory[ws], reply.content, TRUE)

\* An awaited model invocation of the prompt event k of ws settles with reply.
ModelSettles(ws, k, reply) ==
    /\ k \in 1 .. Len(tasks[ws])
    /\ tasks[ws][k].stage \in {"model1", "model2"}
    /\ reply \in IF tasks[ws][k].stage = "model1"
                 THEN Replies(tasks[ws][k].calls[Len(tasks[ws][k].calls)])
                 ELSE FinalReplies(tasks[ws][k].calls[Len(tasks[ws][k].calls)])
    /\ IF tasks[ws][k].stage = "model1"
       THEN AfterFirstInvocation(ws, k, reply)
       ELSE AfterFinalInvocation(ws, k, reply)
    /\ inputs' = [inputs EXCEPT ![ws] = Append(@, Input("reply", k, reply))]
    /\ UNCHANGED << nConns, kind, token, readyState, closeCode, activeTunnels, pc,
                    studentConfig, openaiApiKey, req, nReq, callMetadata, reqUrl,
                    fetched, lastEvent, sendThrows,
                    unheard >>

\* ws.on('close') of a call connection (attached once the engine is "ready"), and
\* the closing of a connection the router refused.
CallClose(ws) ==
    /\ kind[ws] \in {"call", "rejected"}
    /\ readyState[ws] = "CLOSING"
    /\ readyState' = [readyState EXCEPT ![ws] = "CLOSED"]
    /\ tunnelOut' = IF pc[ws] = "ready"
                    THEN sendTunnelEvent(tunnelOut, token[ws], TunnelMsg("call_ended", ws, 0))
                    ELSE tunnelOut
    /\ UNCHANGED << nConns, kind, token, closeCode, activeTunnels, callOut, pc,
                    studentConfig, openaiApiKey, req, nReq, callMetadata,
                    conversationHistory, tasks,
                    reqUrl, fetched, lastEvent, sendThrows, inputs, unheard >>

\* ------------------------------------------------------------ specifications
\* The configurations the settings retrieval yields in Spec.
SpecConfigs ==
    { [NoConfig EXCEPT !.openai_api_key = key] : key \in {Undefined, "sk-student"} }

\* The events of the calls of Spec.
SpecEvents == { CallEvent("setup"), CallEvent("dtmf"), NotJsonEvent }

SpecResponses ==
    { FetchFailure(f) : f \in FetchFailures } \cup { FetchSuccess(cfg) : cfg \in SpecConfigs }

\* Routing, tunnel registry, credential exchange and the events without a model
\* invocation.
Next ==
    \/ \E url \in URLs : Connect(url)
    \/ \E ws \in Conns : kind[ws] = "tunnel" /\ BeginClose(ws)
    \/ \E ws \in Conns : TunnelClose(ws)
    \/ \E ws \in Conns, data \in ObserverMessages : TunnelMessage(ws, data)
    \/ Tick
    \/ \E ws \in Conns : CredentialTimeoutFires(ws)
    \/ \E ws \in Conns, response \in SpecResponses : SettingsFetched(ws, response)
    \/ \E ws \in Conns, data \in SpecEvents : OnMessage(ws, data)

Spec == Init /\ [][Next]_vars


\* The configurations of the calls of SpecTurn: with and without instruction text,
\* with and without tools, the secret stored.
TurnConfigs ==
    { [openai_api_key |-> "sk-student", system_prompt |-> sp, tools |-> tl] :
        sp \in {Undefined, "Be brief."}, tl \in {<< >>, <<"lookup", "book">>} }

TokenA == <<"a">>

\* A call accepted on connection 2 with its handlers attached, after an observer
\* for the same token registered on connection 1.
InitTurn ==
    \E cfg \in TurnConfigs :
        /\ nConns = 2
        /\ kind = [c \in Conns |-> IF c = 1 THEN "tunnel" ELSE IF c = 2 THEN "call" ELSE "none"]
        /\ token = [c \in Conns |-> IF c \in {1, 2} THEN TokenA ELSE << >>]
        /\ readyState = [c \in Conns |-> IF c \in {1, 2} THEN "OPEN" ELSE "NEW"]
        /\ closeCode = [c \in Conns |-> 0]
        /\ activeTunnels = [t \in {TokenA} |-> 1]
        /\ tunnelOut = [c \in Conns |->
                          IF c = 1 THEN << TunnelMsg("tunnel_connected", 1, 0) >> ELSE << >>]
        /\ callOut = [c \in Conns |-> << >>]
        /\ pc = [c \in Conns |-> IF c = 2 THEN "ready" ELSE "none"]
        /\ studentConfig = [c \in Conns |-> IF c = 2 THEN cfg ELSE NoConfig]
        /\ openaiApiKey = [c \in Conns |->
                             IF c = 2 THEN ResolveApiKey(cfg.openai_api_key) ELSE "unset"]
        /\ req = [c \in Conns |-> NoRequest]
        /\ nReq = 0
        /\ callMetadata = [c \in Conns |-> NoMetadata]
        /\ conversationHistory = [c \in Conns |-> << >>]
        /\ tasks = [c \in Conns |-> << >>]
        /\ reqUrl = [c \in Conns |->
                        IF c = 1 THEN TUNNEL_PREFIX \o TokenA
                        ELSE IF c = 2 THEN WS_PREFIX \o TokenA ELSE << >>]
        /\ sendThrows = [c \in Conns |-> FALSE]
        /\ unheard = [c \in Conns |-> {}]
        /\ fetched = [c \in Conns |-> IF c \in {2, 3} /\ kind[c] = "call" THEN "ok" ELSE "none"]
        /\ lastEvent = [c \in Conns |-> "none"]
        /\ inputs = [c \in Conns |-> << >>]

\* The prompt events of a call, its model invocations, and the closing of the
\* call and of its observer.
NextTurn ==
    \/ \E ws \in Conns, data \in PromptEvents : OnMessage(ws, data)
    \/ \E ws \in Conns, k \in 1 .. MaxPrompts :
          \E reply \in AnyReply : ModelSettles(ws, k, reply)
    \/ \E ws \in Conns : BeginClose(ws)
    \/ \E ws \in Conns : TunnelClose(ws)
    \/ \E ws \in Conns : CallClose(ws)

SpecTurn == InitTurn /\ [][NextTurn]_vars

\* The responses of the model in SpecAnswer: one text, at most one tool
\* invocation.
AnswerReplies ==
    { r \in AnyReply : r.content # "It is sunny." /\ Len(r.tool_calls) <= 1 }

\* The awaited model invocation of the prompt event k of ws settles.
SettlesFor(ws, k) == \E reply \in AnswerReplies : ModelSettles(ws, k, reply)

\* A call with instruction text, its handlers attached, and its observer.
InitAnswer == InitTurn /\ studentConfig[2].system_prompt = "Be brief."

\* The prompt events of a call, its model invocations, and the closing of the
\* call connection.
NextAnswer ==
    \/ \E ws \in Conns, data \in PromptEvents : OnMessage(ws, data)
    \/ \E ws \in Conns, k \in 1 .. MaxPrompts : SettlesFor(ws, k)
    \/ \E ws \in Conns : kind[ws] = "call" /\ BeginClose(ws)
    \/ \E ws \in Conns : CallClose(ws)

\* Every model invocation that is awaited returns or throws in the end.
FairAnswer == \A ws \in Conns : \A k \in 1 .. MaxPrompts : WF_vars(SettlesFor(ws, k))

SpecAnswer == InitAnswer /\ [][NextAnswer]_vars /\ FairAnswer


\* The configurations of the call of SpecCall: with and without a stored secret,
\* with and without tools.
CallConfigs ==
    { [openai_api_key |-> key, system_prompt |-> Undefined, tools |-> tl] :
        key \in {Undefined, "sk-student"}, tl \in {<< >>, <<"lookup", "book">>} }

CallResponses ==
    { FetchFailure(f) : f \in FetchFailures } \cup { FetchSuccess(cfg) : cfg \in CallConfigs }

\* The messages of the observer of SpecCall: about the one request there is.
CallObserverMessages ==
    { m \in ObserverMessages : m = NoMessage \/ (m.requestId = 1 /\ m.secret = Undefined) }

\* A call connecting on connection 2, its settings retrieval under way, after an
\* observer for the same token registered on connection 1.
InitCall ==
    /\ nConns = 2
    /\ kind = [c \in Conns |-> IF c = 1 THEN "tunnel" ELSE IF c = 2 THEN "call" ELSE "none"]
    /\ token = [c \in Conns |-> IF c \in {1, 2} THEN TokenA ELSE << >>]
    /\ readyState = [c \in Conns |-> IF c \in {1, 2} THEN "OPEN" ELSE "NEW"]
    /\ closeCode = [c \in Conns |-> 0]
    /\ activeTunnels = [t \in {TokenA} |-> 1]
    /\ tunnelOut = [c \in Conns |->
                      IF c = 1 THEN << TunnelMsg("tunnel_connected", 1, 0) >> ELSE << >>]
    /\ callOut = [c \in Conns |-> << >>]
    /\ pc = [c \in Conns |-> IF c = 2 THEN "fetching" ELSE "none"]
    /\ studentConfig = [c \in Conns |-> NoConfig]
    /\ openaiApiKey = [c \in Conns |-> "unset"]
    /\ req = [c \in Conns |-> NoRequest]
    /\ nReq = 0
    /\ callMetadata = [c \in Conns |-> NoMetadata]
    /\ conversationHistory = [c \in Conns |-> << >>]
    /\ tasks = [c \in Conns |-> << >>]
    /\ reqUrl = [c \in Conns |->
                    IF c = 1 THEN TUNNEL_PREFIX \o TokenA
                    ELSE IF c = 2 THEN WS_PREFIX \o TokenA ELSE << >>]
    /\ sendThrows = [c \in Conns |-> FALSE]
    /\ unheard = [c \in Conns |-> {}]
    /\ fetched = [c \in Conns |-> "none"]
    /\ lastEvent = [c \in Conns |-> "none"]
    /\ inputs = [c \in Conns |-> << >>]

\* One call from its settings retrieval through the credential exchange to a
\* prompt event, with an observer that answers, stays silent, closes, or whose
\* send() throws.
NextCall ==
    \/ \E ws \in Conns, response \in CallResponses : SettingsFetched(ws, response)
    \/ \E ws \in Conns, data \in CallObserverMessages : TunnelMessage(ws, data)
    \/ Tick
    \/ \E ws \in Conns : CredentialTimeoutFires(ws)
    \/ \E ws \in Conns : TunnelSendBreaks(ws)
    \/ \E ws \in Conns : kind[ws] = "tunnel" /\ BeginClose(ws)
    \/ \E ws \in Conns : TunnelClose(ws)
    \/ \E ws \in Conns, data \in PromptEvents :
          Len(tasks[ws]) < CallPrompts /\ OnMessage(ws, data)
    \/ \E ws \in Conns, k \in 1 .. MaxPrompts :
          \E reply \in AnyReply : ModelSettles(ws, k, reply)

SpecCall == InitCall /\ [][NextCall]_vars

\* The events a call receives at its start.
EarlyEvents == { CallEvent("setup"), CallEvent("prompt") }

\* SpecCall with the events that arrive on the call connection from the moment
\* it is open.
NextEarly ==
    \/ NextCall
    \/ \E ws \in Conns, data \in EarlyEvents : MessageUnheard(ws, data)
    \/ \E ws \in Conns : OnMessage(ws, CallEvent("setup"))

SpecEarly == InitCall /\ [][NextEarly]_vars

\* The settings retrievals of SpecExchange: a configuration with or without a
\* stored secret, or a refusal.
ExchangeResponses ==
    { FetchSuccess(cfg) : cfg \in SpecConfigs } \cup { FetchFailure("notOk") }

\* The connections that arrive during an exchange: another observer or another
\* call for the same token.
ExchangeURLs == { TUNNEL_PREFIX \o TokenA, WS_PREFIX \o TokenA }

\* The credential exchange of a call whose observer answers, stays silent,
\* closes, or is replaced by a newer connection while the request is pending.
NextExchange ==
    \/ \E url \in ExchangeURLs : Connect(url)
    \/ \E ws \in Conns, response \in ExchangeResponses : SettingsFetched(ws, response)
    \/ \E ws \in Conns, data \in ObserverMessages :
          data.secret = Undefined /\ TunnelMessage(ws, data)
    \/ Tick
    \/ \E ws \in Conns : CredentialTimeoutFires(ws)
    \/ \E ws \in Conns : kind[ws] = "tunnel" /\ BeginClose(ws)
    \/ \E ws \in Conns : TunnelClose(ws)

\* Time passes and a timer that is due fires (setTimeout).
FairExchange ==
    /\ WF_vars(Tick)
    /\ \A ws \in Conns : WF_vars(CredentialTimeoutFires(ws))

SpecExchange == InitCall /\ [][NextExchange]_vars /\ FairExchange

TokenB == <<"b">>

\* Two calls with the same configuration, one of cfgs, their handlers attached:
\* the call on connection 2 has an observer, registered on connection 1; the call
\* on connection 3 is for the token tb.
InitTwoCalls(cfgs, tb) ==
    \E cfg \in cfgs :
        /\ nConns = 3
        /\ kind = [c \in Conns |-> IF c = 1 THEN "tunnel" ELSE IF c \in {2, 3} THEN "call"
                                   ELSE "none"]
        /\ token = [c \in Conns |-> IF c \in {1, 2} THEN TokenA
                                    ELSE IF c = 3 THEN tb ELSE << >>]
        /\ readyState = [c \in Conns |-> IF c \in {1, 2, 3} THEN "OPEN" ELSE "NEW"]
        /\ closeCode = [c \in Conns |-> 0]
        /\ activeTunnels = [t \in {TokenA} |-> 1]
        /\ tunnelOut = [c \in Conns |->
                          IF c = 1 THEN << TunnelMsg("tunnel_connected", 1, 0) >> ELSE << >>]
        /\ callOut = [c \in Conns |-> << >>]
        /\ pc = [c \in Conns |-> IF c \in {2, 3} THEN "ready" ELSE "none"]
        /\ studentConfig = [c \in Conns |-> IF c \in {2, 3} THEN cfg ELSE NoConfig]
        /\ openaiApiKey = [c \in Conns |->
                             IF c \in {2, 3} THEN ResolveApiKey(cfg.openai_api_key)
                             ELSE "unset"]
        /\ req = [c \in Conns |-> NoRequest]
        /\ nReq = 0
        /\ callMetadata = [c \in Conns |-> NoMetadata]
        /\ conversationHistory = [c \in Conns |-> << >>]
        /\ tasks = [c \in Conns |-> << >>]
        /\ reqUrl = [c \in Conns |->
                        IF c = 1 THEN TUNNEL_PREFIX \o TokenA
                        ELSE IF c = 2 THEN WS_PREFIX \o TokenA
                        ELSE IF c = 3 THEN WS_PREFIX \o tb ELSE << >>]
        /\ sendThrows = [c \in Conns |-> FALSE]
        /\ unheard = [c \in Conns |-> {}]
        /\ fetched = [c \in Conns |-> IF c \in {2, 3} /\ kind[c] = "call" THEN "ok" ELSE "none"]
        /\ lastEvent = [c \in Conns |-> "none"]
        /\ inputs = [c \in Conns |-> << >>]

\* Two calls with the same configuration, which carries a stored secret: one
\* with an observer, one for another token and without.
InitMirror == InitTwoCalls(TurnConfigs, TokenB)

\* The prompt events and model invocations of the two calls, while the observer
\* stays, starts to throw on send(), or closes and leaves the registry.
NextMirror ==
    \/ \E ws \in Conns, data \in PromptEvents :
          Len(tasks[ws]) < CallPrompts /\ OnMessage(ws, data)
    \/ \E ws \in Conns, k \in 1 .. MaxPrompts :
          \E reply \in AnyReply : ModelSettles(ws, k, reply)
    \/ \E ws \in Conns : TunnelSendBreaks(ws)
    \/ \E ws \in Conns : kind[ws] = "tunnel" /\ BeginClose(ws)
    \/ \E ws \in Conns : TunnelClose(ws)

SpecMirror == InitMirror /\ [][NextMirror]_vars

\* The configurations of the two calls of SpecShared: a stored secret, no tools.
SharedConfigs ==
    { [openai_api_key |-> "sk-student", system_prompt |-> sp, tools |-> << >>] :
        sp \in {Undefined, "Be brief."} }

\* Two calls for the same session token and their observer.
InitShared == InitTwoCalls(SharedConfigs, TokenA)

\* The setup and prompt events and the model invocations of the two calls, and
\* the closing of their observer.
NextShared ==
    \/ \E ws \in Conns, data \in PromptEvents :
          Len(tasks[ws]) < CallPrompts /\ OnMessage(ws, data)
    \/ \E ws \in Conns : OnMessage(ws, CallEvent("setup"))
    \/ \E ws \in Conns, k \in 1 .. MaxPrompts :
          \E reply \in AnyReply : ModelSettles(ws, k, reply)
    \/ \E ws \in Conns : kind[ws] = "tunnel" /\ BeginClose(ws)
    \/ \E ws \in Conns : TunnelClose(ws)

SpecShared == InitShared /\ [][NextShared]_vars

\* The request paths of SpecRoute: with and without a prefix, with and without a
\* token, the bare keywords as tokens, and query strings with and without a "/".
RoutePaths ==
    { WS_PREFIX \o <<"a">>,
      TUNNEL_PREFIX \o <<"a">>,
      WS_PREFIX,
      WS_PREFIX \o <<"w", "s">>,
      TUNNEL_PREFIX \o <<"t", "u", "n", "n", "e", "l">>,
      <<"/", "x", "/", "a">> }

RouteQueries == { << >>, <<"?", "k">> }

RouteURLs ==
    { P \o Q : P \in RoutePaths, Q \in RouteQueries }
    \cup { WS_PREFIX \o <<"a", "?", "r", "=", "/", "b">>,
           TUNNEL_PREFIX \o <<"a", "?", "k", "/">> }

RouteResponses == { FetchFailure("notOk"), FetchSuccess([NoConfig EXCEPT !.openai_api_key = "sk-student"]) }

\* The router: connections with the paths of RouteURLs, the settings retrieval of
\* the calls it accepts, and the closing of connections.
NextRoute ==
    \/ \E url \in RouteURLs : Connect(url)
    \/ \E ws \in Conns, response \in RouteResponses : SettingsFetched(ws, response)
    \/ \E ws \in Conns : kind[ws] = "tunnel" /\ BeginClose(ws)
    \/ \E ws \in Conns : TunnelClose(ws)
    \/ \E ws \in Conns : CallClose(ws)

SpecRoute == Init /\ [][NextRoute]_vars

\* The events other than prompts of a call whose handlers are attached, while its
\* observer stays, starts to throw on send(), or closes and leaves the registry.
NextOther ==
    \/ \E ws \in Conns, data \in OtherEvents : OnMessage(ws, data)
    \/ \E ws \in Conns : TunnelSendBreaks(ws)
    \/ \E ws \in Conns : kind[ws] = "tunnel" /\ BeginClose(ws)
    \/ \E ws \in Conns : TunnelClose(ws)

SpecOther == InitTurn /\ [][NextOther]_vars

\* One call as in SpecCall, whose peer may close it at any point of its lifetime.
NextClose ==
    \/ NextCall
    \/ \E ws \in Conns : kind[ws] = "call" /\ BeginClose(ws)
    \/ \E ws \in Conns : CallClose(ws)

SpecClose == InitCall /\ [][NextClose]_vars

\* ------------------------------------------------------------------ properties
\* The tunnel connection o has been replaced: a later tunnel connection came for
\* the same token.
Replaced(o) ==
    /\ kind[o] = "tunnel"
    /\ \E n \in Conns : n > o /\ kind[n] = "tunnel" /\ token[n] = token[o]

\* C1: the close of a tunnel connection that is not the one registered for its
\* token leaves the registry as it is.
C1_StaleCloseLeavesRegistry ==
    [][\A ws \in Conns :
         ( /\ kind[ws] = "tunnel"
           /\ readyState[ws] = "CLOSING" /\ readyState'[ws] = "CLOSED"
           /\ TunnelsGet(token[ws]) # ws )
         => activeTunnels' = activeTunnels]_vars

\* C2: once a tunnel connection has been replaced by a later one for its token,
\* no mirrored event and no credential request is sent to it any more.
C2_ReplacedObserverReceivesNothing ==
    [][\A o \in Conns : Replaced(o) => tunnelOut'[o] = tunnelOut[o]]_vars

\* C2 happens: the later of two tunnel connections for a token has received an
\* event of a call.
C2_Witness ==
    \E o \in Conns, n \in Conns :
        /\ Replaced(o) /\ n > o /\ kind[n] = "tunnel" /\ token[n] = token[o]
        /\ \E i \in 1 .. Len(tunnelOut[n]) :
              tunnelOut[n][i].type \in {"call_setup", "credential_request"}

\* C3: every message an observer has been sent comes from a connection of the
\* observer's own session token.
C3_RegistryPartitioned ==
    \A o \in Conns : \A i \in 1 .. Len(tunnelOut[o]) :
        token[tunnelOut[o][i].from] = token[o]

\* C3 happens: an event of a call on one token was mirrored to that token's
\* observer while an open observer was registered for another token.
C3_Witness ==
    \E o1 \in Conns, o2 \in Conns, c \in Conns :
        /\ kind[o1] = "tunnel" /\ kind[o2] = "tunnel" /\ kind[c] = "call"
        /\ token[o1] # token[o2] /\ token[c] = token[o2]
        /\ readyState[o1] = "OPEN" /\ TunnelsGet(token[o1]) = o1
        /\ \E i \in 1 .. Len(tunnelOut[o2]) : tunnelOut[o2][i].from = c

\* C4: when the engine starts for a call without a stored secret and the registry
\* holds no tunnel for the token, or one that is not open, the exchange is
\* "unavailable" in the same step and nothing is sent to any observer.
C4_UnavailableSendsNothing ==
    [][\A ws \in Conns :
         ( /\ pc[ws] = "fetching" /\ pc'[ws] \notin {"fetching", "refused"}
           /\ ~Truthy(studentConfig'[ws].openai_api_key)
           /\ IF TunnelsGet(token[ws]) = 0 THEN TRUE
              ELSE readyState[TunnelsGet(token[ws])] # "OPEN" )
         => ( /\ req'[ws].outcome = "unavailable"
              /\ pc'[ws] = "ready"
              /\ tunnelOut' = tunnelOut
              /\ nReq' = nReq )]_vars

\* C4 happens: a call found the tunnel of its token registered but not open.
C4_Witness ==
    \E ws \in Conns, o \in Conns :
        /\ o < ws /\ kind[o] = "tunnel"
        /\ req[ws].outcome = "unavailable"
        /\ TunnelsGet(token[ws]) = o

\* C5: an exchange that ended without a matching response ended by the timeout,
\* no sooner than the timeout's delay; it was settled once, also when a matching
\* response came later, and the call keeps the secret chosen at the timeout.
C5_TimeoutThenLateResponseIgnored ==
    \A ws \in Conns :
        /\ ( req[ws].requestId # 0 /\ req[ws].outcome # "pending"
             /\ req[ws].by = NoMessage ) => req[ws].outcome = "timeout"
        /\ req[ws].outcome = "timeout" =>
              /\ req[ws].firedAt >= CredentialTimeout
              /\ req[ws].settled = 1
              /\ req[ws].by = NoMessage
              /\ pc[ws] = "ready"
              /\ openaiApiKey[ws] = DefaultKey

\* C5 happens: a matching response arrived after the timeout.
C5_Witness ==
    \E ws \in Conns : req[ws].outcome = "timeout" /\ req[ws].late

\* C6: a request is resolved only by a credential_response with its requestId;
\* until that or the timeout it stays pending, whatever else its listener sees.
C6_OnlyMatchingResponseResolves ==
    \A ws \in Conns :
        /\ req[ws].outcome = "resolved" =>
              /\ req[ws].by.json
              /\ req[ws].by.type = "credential_response"
              /\ req[ws].by.requestId = req[ws].requestId
        /\ ( req[ws].requestId # 0 /\ req[ws].by = NoMessage
             /\ req[ws].timeout # "fired" ) =>
              /\ req[ws].outcome = "pending"
              /\ pc[ws] = "awaitCredentials"
              /\ openaiApiKey[ws] = "unset"

\* C6 happens: the listener of a pending request has passed over a message.
C6_Witness ==
    \E ws \in Conns : req[ws].outcome = "pending" /\ req[ws].ignored

\* C7: resolve or reject is called at most once for a request, and exactly once
\* when the exchange is over: a resolved request has its timer cleared, a timed
\* out one has its listener removed.
C7_ResolvedExactlyOnce ==
    \A ws \in Conns :
        /\ req[ws].settled <= 1
        /\ req[ws].outcome = "pending" => req[ws].settled = 0
        /\ req[ws].outcome = "resolved" =>
              req[ws].settled = 1 /\ req[ws].timeout = "cleared" /\ ~req[ws].listener
        /\ req[ws].outcome = "timeout" =>
              req[ws].settled = 1 /\ req[ws].timeout = "fired" /\ ~req[ws].listener

\* C7 happens: a request was resolved by a response, and time has passed since
\* for another request.
C7_Witness ==
    \E ws \in Conns, other \in Conns :
        /\ req[ws].outcome = "resolved"
        /\ req[other].outcome = "timeout"

C9_SecretPriority ==
    \A ws \in Conns :
        pc[ws] = "ready" =>
            openaiApiKey[ws] =
                IF Truthy(studentConfig[ws].openai_api_key)
                THEN studentConfig[ws].openai_api_key
                ELSE IF req[ws].outcome = "resolved" /\ Truthy(req[ws].value)
                THEN req[ws].value
                ELSE DefaultKey

\* C9 happens: a call without a stored secret and without a tunnel uses the
\* default, while another call uses its stored secret.
C9_Witness ==
    \E ws \in Conns, other \in Conns :
        /\ pc[ws] = "ready" /\ ~Truthy(studentConfig[ws].openai_api_key)
        /\ req[ws].outcome = "unavailable" /\ openaiApiKey[ws] = DefaultKey
        /\ pc[other] = "ready" /\ openaiApiKey[other] = "sk-student"


\* The text messages sent on the call connection ws for its prompt event k.
TextsFor(ws, k) ==
    { i \in 1 .. Len(callOut[ws]) : callOut[ws][i].prompt = k }

\* The assistant turns the prompt event k of ws has added to the history.
AssistantTurnsOf(ws, k) ==
    { i \in 1 .. Len(conversationHistory[ws]) :
        /\ conversationHistory[ws][i].role = "assistant"
        /\ conversationHistory[ws][i].prompt = k }

\* The prompt event k of ws is over and one of its model invocations threw.
InvocationThrew(ws, k) ==
    /\ k \in 1 .. Len(tasks[ws])
    /\ tasks[ws][k].stage = "done"
    /\ tasks[ws][k].failed \in {"invocation1", "invocation2"}

\* Exactly one text message was sent for the prompt event k of ws: the apology.
OnlyTheApology(ws, k) ==
    /\ Cardinality(TextsFor(ws, k)) = 1
    /\ \A i \in TextsFor(ws, k) :
          callOut[ws][i].type = "text" /\ callOut[ws][i].token = Apology

\* C10 as stated: a prompt whose model invocation threw, the first or the one
\* after the tools, is answered by the apology alone and has added no assistant
\* turn to the history.
C10_ThrowAddsNoAssistantTurn ==
    \A ws \in Conns : \A k \in 1 .. MaxPrompts :
        InvocationThrew(ws, k) =>
            OnlyTheApology(ws, k) /\ AssistantTurnsOf(ws, k) = {}

\* C10 amended: the prompt is answered by the apology alone; it has added no
\* assistant turn when the first invocation threw, and when the invocation after
\* the tools threw, only the model's tool-invocation turn, never an answer.
C10_ThrowAddsNoAnswerTurn ==
    \A ws \in Conns : \A k \in 1 .. MaxPrompts :
        InvocationThrew(ws, k) =>
            /\ OnlyTheApology(ws, k)
            /\ tasks[ws][k].failed = "invocation1" => AssistantTurnsOf(ws, k) = {}
            /\ tasks[ws][k].failed = "invocation2" =>
                  /\ Cardinality(AssistantTurnsOf(ws, k)) = 1
                  /\ \A i \in AssistantTurnsOf(ws, k) :
                        /\ conversationHistory[ws][i].tool_calls # << >>
                        /\ \A j \in i + 1 .. Len(conversationHistory[ws]) :
                              conversationHistory[ws][j].prompt = k
                                 => conversationHistory[ws][j].role = "tool"

\* C10 happens: the invocation after the tools threw for one prompt and the first
\* invocation for another.
C10_Witness ==
    \E ws \in Conns :
        /\ InvocationThrew(ws, 1) /\ InvocationThrew(ws, 2)
        /\ tasks[ws][1].failed # tasks[ws][2].failed


\* The credential exchange of the call ws failed: no tunnel, a send that threw,
\* or the timeout.
ExchangeFailed(ws) == req[ws].outcome \in {"unavailable", "sendFailed", "timeout"}

\* C11: a call connection whose configuration was loaded is never closed by the
\* server, whatever fails afterwards (credential exchange, model, tool execution,
\* mirror send); a call connection the server closed was closed by the failed
\* settings retrieval, before any engine existed for it.
C11_LoadedCallNeverClosed ==
    \A ws \in Conns : kind[ws] = "call" =>
        /\ pc[ws] \in {"awaitCredentials", "ready"} =>
              closeCode[ws] = 0 /\ readyState[ws] = "OPEN"
        /\ closeCode[ws] # 0 =>
              /\ pc[ws] = "refused"
              /\ req[ws] = NoRequest /\ openaiApiKey[ws] = "unset"
              /\ tasks[ws] = << >> /\ callOut[ws] = << >>

\* C11 happens: the credential exchange of a call failed, then a prompt of it
\* ended in the catch branch while send() on its registered observer threw, and
\* the call connection is open.
C11_Witness ==
    \E ws \in Conns :
        /\ kind[ws] = "call" /\ readyState[ws] = "OPEN" /\ closeCode[ws] = 0
        /\ ExchangeFailed(ws)
        /\ Len(tasks[ws]) > 0 /\ tasks[ws][1].stage = "done"
        /\ tasks[ws][1].failed \in {"invocation1", "arguments", "invocation2"}
        /\ TunnelsGet(token[ws]) # 0
        /\ sendThrows[TunnelsGet(token[ws])]


\* The replies that have settled a model invocation of the prompt event k of ws.
RepliesOf(ws, k) ==
    { i \in 1 .. Len(inputs[ws]) :
        inputs[ws][i].event = "reply" /\ inputs[ws][i].prompt = k }

\* C12: for a configuration with zero tools a prompt event makes exactly one
\* model invocation, which carries no tool definitions and no tool-choice
\* setting; one reply settles it and the prompt is over.
C12_ZeroToolsOneInvocation ==
    \A ws \in Conns : \A k \in 1 .. Len(tasks[ws]) :
        Len(studentConfig[ws].tools) = 0 =>
            /\ Len(tasks[ws][k].calls) = 1
            /\ tasks[ws][k].calls[1].tools = << >>
            /\ tasks[ws][k].calls[1].tool_choice = Undefined
            /\ Cardinality(RepliesOf(ws, k)) <= 1
            /\ tasks[ws][k].stage = "done" <=> Cardinality(RepliesOf(ws, k)) = 1

\* C12 happens: a call without tools has answered two prompts.
C12_Witness ==
    \E ws \in Conns :
        /\ Len(studentConfig[ws].tools) = 0
        /\ Len(tasks[ws]) = 2
        /\ \A k \in 1 .. 2 : tasks[ws][k].stage = "done" /\ tasks[ws][k].failed = "none"


\* The first reply of the prompt event k of ws (NoReply if none has come).
FirstReplyOf(ws, k) ==
    IF RepliesOf(ws, k) = {} THEN NoReply
    ELSE inputs[ws][CHOOSE i \in RepliesOf(ws, k) : \A j \in RepliesOf(ws, k) : i <= j].reply

\* The tool turns the prompt event k of ws has added to the history.
ToolTurnsOf(ws, k) ==
    { i \in 1 .. Len(conversationHistory[ws]) :
        /\ conversationHistory[ws][i].role = "tool"
        /\ conversationHistory[ws][i].prompt = k }

\* The first reply of the prompt event k of ws carried tool invocations.
AskedForTools(ws, k) ==
    /\ k \in 1 .. Len(tasks[ws])
    /\ FirstReplyOf(ws, k).kind = "ok" /\ FirstReplyOf(ws, k).has_tool_calls

\* The argument texts of all the invocations of tool_calls parse.
AllParse(tool_calls) == \A i \in 1 .. Len(tool_calls) : JsonValid(tool_calls[i].arguments)

\* C13 as stated: a first reply with n >= 1 tool invocations has every tool
\* executed and is followed by exactly one more model invocation.
C13_ToolsAlwaysTwoInvocations ==
    \A ws \in Conns : \A k \in 1 .. MaxPrompts :
        AskedForTools(ws, k) =>
            /\ Len(tasks[ws][k].calls) = 2
            /\ Cardinality(ToolTurnsOf(ws, k)) = Len(FirstReplyOf(ws, k).tool_calls)

\* C13 amended: when the argument texts of all n >= 1 tool invocations parse,
\* every tool is executed (one tool turn per invocation) and the model is invoked
\* exactly once more, whatever n; when one does not parse, the tools before it
\* have been executed, no second invocation is made and the prompt is over, in
\* the catch branch.
C13_ParsedToolsTwoInvocations ==
    \A ws \in Conns : \A k \in 1 .. MaxPrompts :
        AskedForTools(ws, k) =>
            LET calls == FirstReplyOf(ws, k).tool_calls IN
            IF AllParse(calls)
            THEN /\ Len(tasks[ws][k].calls) = 2
                 /\ tasks[ws][k].calls[2].tools = << >>
                 /\ Cardinality(ToolTurnsOf(ws, k)) = Len(calls)
                 /\ Cardinality(RepliesOf(ws, k)) <= 2
                 /\ tasks[ws][k].failed # "arguments"
            ELSE /\ Len(tasks[ws][k].calls) = 1
                 /\ Cardinality(ToolTurnsOf(ws, k)) < Len(calls)
                 /\ tasks[ws][k].stage = "done" /\ tasks[ws][k].failed = "arguments"
                 /\ OnlyTheApology(ws, k)

\* C13 happens: a reply with two tool invocations was followed by the second
\* invocation, which answered.
C13_Witness ==
    \E ws \in Conns : \E k \in 1 .. MaxPrompts :
        /\ AskedForTools(ws, k)
        /\ Len(FirstReplyOf(ws, k).tool_calls) = 2
        /\ AllParse(FirstReplyOf(ws, k).tool_calls)
        /\ tasks[ws][k].stage = "done" /\ tasks[ws][k].failed = "none"
        /\ Cardinality(RepliesOf(ws, k)) = 2


\* The place in the history of the user turn of the prompt event k of ws.
UserTurnOf(ws, k) ==
    CHOOSE i \in 1 .. Len(conversationHistory[ws]) :
        conversationHistory[ws][i].role = "user" /\ conversationHistory[ws][i].prompt = k

\* The system turn of the first invocation: the configuration's instruction
\* text, or the built-in one.
SystemTurn(cfg) ==
    Turn("system", IF Truthy(cfg.system_prompt) THEN cfg.system_prompt ELSE DefaultPrompt,
         << >>, 0, 0)

\* C14: the message list of the first invocation of a prompt is one system turn
\* followed by the whole history as it stood, in order, ending with the user turn
\* of the prompt (two entries when the history held nothing before), and a reply
\* without tool invocations is sent on the call connection with the model's text
\* as the token of the one text message of the prompt.
C14_FirstInvocationMessages ==
    \A ws \in Conns : \A k \in 1 .. Len(tasks[ws]) :
        LET messages == tasks[ws][k].calls[1].messages
            u == UserTurnOf(ws, k)
            reply == FirstReplyOf(ws, k)
        IN
        /\ messages = << SystemTurn(studentConfig[ws]) >>
                          \o SubSeq(conversationHistory[ws], 1, u)
        /\ messages[Len(messages)] =
              Turn("user", "What's the weather?", << >>, 0, k)
        /\ k = 1 => Len(messages) = 2
        /\ (reply.kind = "ok" /\ ~reply.has_tool_calls) =>
              /\ Cardinality(TextsFor(ws, k)) = 1
              /\ \A i \in TextsFor(ws, k) :
                    /\ callOut[ws][i].type = "text"
                    /\ callOut[ws][i].token = reply.content
                    /\ callOut[ws][i].last

\* C14 happens: the second prompt of a call was invoked with the system turn,
\* the first prompt's user and assistant turns and its own user turn, and the
\* model's text was sent.
C14_Witness ==
    \E ws \in Conns :
        /\ Len(tasks[ws]) = 2
        /\ Len(tasks[ws][2].calls[1].messages) = 4
        /\ tasks[ws][2].calls[1].messages[3].role = "assistant"
        /\ tasks[ws][2].stage = "done"
        /\ FirstReplyOf(ws, 2).kind = "ok" /\ ~FirstReplyOf(ws, 2).has_tool_calls
        /\ \E i \in TextsFor(ws, 2) : callOut[ws][i].token = "Sure."


\* The types of the messages the observer o has been sent by the call ws.
MirroredTypes(o, ws) ==
    { tunnelOut[o][i].type : i \in { j \in 1 .. Len(tunnelOut[o]) : tunnelOut[o][j].from = ws } }

\* C15: two calls with the same configuration (a stored secret) that were given
\* the same prompt events and the same model replies in the same order have sent
\* the same messages on their call connections and hold the same history,
\* whatever became of their observers: none registered, one open, one closing or
\* closed or gone from the registry, one whose send() throws.
C15_MirrorDoesNotAffectCall ==
    \A a \in Conns, b \in Conns :
        ( /\ kind[a] = "call" /\ kind[b] = "call"
          /\ pc[a] = "ready" /\ pc[b] = "ready"
          /\ studentConfig[a] = studentConfig[b]
          /\ Truthy(studentConfig[a].openai_api_key)
          /\ inputs[a] = inputs[b] )
        => /\ callOut[a] = callOut[b]
           /\ conversationHistory[a] = conversationHistory[b]

\* C15 happens: of two calls with the same inputs, which made two model
\* invocations each, one has no observer and the other's observer received the
\* first events of the prompt before its send() began to throw.
C15_Witness ==
    \E a \in Conns, b \in Conns, o \in Conns :
        /\ kind[a] = "call" /\ kind[b] = "call" /\ a # b
        /\ inputs[a] = inputs[b] /\ Len(inputs[a]) = 3
        /\ TunnelsGet(token[b]) = 0
        /\ TunnelsGet(token[a]) = o /\ readyState[o] = "OPEN" /\ sendThrows[o]
        /\ "user_spoke" \in MirroredTypes(o, a)
        /\ "ai_response_after_tools" \notin MirroredTypes(o, a)
        /\ Len(callOut[a]) = 1 /\ callOut[a][1].token # Apology


\* The connection ws is the registered tunnel of some token.
Registered(ws) == \E t \in DOMAIN activeTunnels : activeTunnels[t] = ws

\* The path of the connection ws starts with neither prefix, or the token taken
\* from it is empty or a bare prefix keyword.
InvalidPath(ws) ==
    \/ ~StartsWith(reqUrl[ws], WS_PREFIX) /\ ~StartsWith(reqUrl[ws], TUNNEL_PREFIX)
    \/ SessionTokenOf(reqUrl[ws]) \in { << >>, <<"w", "s">>, <<"t", "u", "n", "n", "e", "l">> }

\* C16: a connection with an invalid path is closed with status 1008 and nothing
\* else ever happens for it: it is not in the tunnel registry, it is sent
\* nothing, no settings retrieval is started and no engine.
C16_InvalidPathOnlyClosed ==
    \A ws \in 1 .. nConns :
        InvalidPath(ws) =>
            /\ kind[ws] = "rejected"
            /\ closeCode[ws] = PolicyViolation
            /\ readyState[ws] \in {"CLOSING", "CLOSED"}
            /\ ~Registered(ws)
            /\ tunnelOut[ws] = << >> /\ callOut[ws] = << >>
            /\ pc[ws] = "none"
            /\ studentConfig[ws] = NoConfig /\ openaiApiKey[ws] = "unset"
            /\ req[ws] = NoRequest /\ tasks[ws] = << >>

\* C16 happens: connections without a prefix, with an empty token and with a
\* bare keyword as token were closed, one of them after a tunnel had registered.
C16_Witness ==
    \E x \in Conns, y \in Conns :
        /\ x < y /\ y <= nConns
        /\ kind[x] = "tunnel" /\ Registered(x)
        /\ InvalidPath(y) /\ readyState[y] = "CLOSED"
        /\ SessionTokenOf(reqUrl[y]) = <<"w", "s">>

\* The path of a request: what comes before the query string.
PathOf(url) == Split(url, "?")[1]

\* C17 as stated: the token taken from a path P followed by a query string is
\* the token taken from P, the trailing segment of P: a connection accepted with
\* P?Q has P's trailing segment as its token, and one refused for its token has
\* a P whose trailing segment is empty or a bare keyword.
C17_TokenIgnoresQuery ==
    \A ws \in 1 .. nConns :
        ( StartsWith(reqUrl[ws], WS_PREFIX) \/ StartsWith(reqUrl[ws], TUNNEL_PREFIX) ) =>
            /\ SessionTokenOf(reqUrl[ws]) = LastPart(PathOf(reqUrl[ws]))
            /\ kind[ws] \in {"tunnel", "call"} => token[ws] = LastPart(PathOf(reqUrl[ws]))
            /\ kind[ws] = "rejected" => TokenRejected(LastPart(PathOf(reqUrl[ws])))


\* The settings retrievals the claim C18 is about: a status that is not a
\* success, a body that is not JSON, a body without success or settings, and
\* settings whose tools are not JSON.
MalformedRetrievals == {"notOk", "badJson", "noSettings", "badTools"}

\* No engine was ever started for the call connection ws.
EngineNeverStarted(ws) ==
    /\ studentConfig[ws] = NoConfig /\ openaiApiKey[ws] = "unset"
    /\ req[ws] = NoRequest /\ tasks[ws] = << >> /\ callOut[ws] = << >>

\* C18 as stated: after a settings retrieval with a non-success status, a body
\* that is not JSON, a body without success or settings, or malformed settings,
\* the call connection is closed with status 1008 and no engine was started.
C18_FailedRetrievalPolicyViolation ==
    \A ws \in Conns :
        fetched[ws] \in MalformedRetrievals =>
            /\ closeCode[ws] = PolicyViolation
            /\ pc[ws] = "refused"
            /\ EngineNeverStarted(ws)

\* The prompt event k of ws ends in this step, without an error.
EndsWell(ws, k) ==
    /\ k \in 1 .. Len(tasks[ws])
    /\ tasks[ws][k].stage # "done"
    /\ tasks'[ws][k].stage = "done" /\ tasks'[ws][k].failed = "none"

SetupMirrored(o, ws) ==
    tunnelOut' = [tunnelOut EXCEPT ![o] = Append(@, TunnelMsg("call_setup", ws, 0))]

\* A setup event of the call ws is processed in this step, visibly: the metadata
\* change or an observer is sent the call_setup event.
SetupStep(ws) ==
    \/ callMetadata'[ws] # callMetadata[ws]
    \/ \E o \in Conns : SetupMirrored(o, ws)

\* C20: processing a setup event stores the event's call identifier, origin,
\* destination, direction and provider session identifier in the metadata of the
\* call and mirrors one call_setup event to the observer registered and open for
\* the call's token (none otherwise); nothing is sent on the call connection,
\* no model is invoked and the history stays as it is.
C20_SetupStoresAndMirrors ==
    [][\A ws \in Conns :
         SetupStep(ws) =>
            LET tunnelWs == TunnelsGet(token[ws]) IN
            /\ callMetadata' = [callMetadata EXCEPT ![ws] = SetupData]
            /\ callMetadata'[ws].callSid = "CA1" /\ callMetadata'[ws].from = "+15550001"
            /\ callMetadata'[ws].to = "+15550002"
            /\ callMetadata'[ws].direction = "inbound"
            /\ callMetadata'[ws].sessionId = "VX1"
            /\ IF tunnelWs = 0 THEN tunnelOut' = tunnelOut
               ELSE IF readyState[tunnelWs] = "OPEN" /\ ~sendThrows[tunnelWs]
               THEN SetupMirrored(tunnelWs, ws)
               ELSE tunnelOut' = tunnelOut
            /\ callOut' = callOut
            /\ conversationHistory' = conversationHistory
            /\ tasks' = tasks /\ inputs' = inputs
            /\ readyState' = readyState /\ closeCode' = closeCode]_vars

\* C20 happens: a call with an observer and a call without one have processed a
\* setup event; the observer was sent the call_setup event of its call.
C20_Witness ==
    \E a \in Conns, b \in Conns, o \in Conns :
        /\ callMetadata[a] = SetupData /\ callMetadata[b] = SetupData
        /\ token[a] # token[b]
        /\ kind[o] = "tunnel" /\ token[o] = token[a]
        /\ \E i \in 1 .. Len(tunnelOut[o]) :
              tunnelOut[o][i] = TunnelMsg("call_setup", a, 0)
        /\ \A c \in Conns : \A i \in 1 .. Len(tunnelOut[c]) :
              tunnelOut[c][i].from # b


\* This step is not one of the observer's side: no connection changes its
\* readyState, the registry and the observers' send() stay as they are.
CallSideStep ==
    /\ readyState' = readyState /\ activeTunnels' = activeTunnels
    /\ sendThrows' = sendThrows

\* This step mirrors exactly one event of the given type of the call ws to the
\* observer registered and open for its token, and none if there is no such
\* observer or its send() throws.
MirrorsOne(ws, type) ==
    LET tunnelWs == TunnelsGet(token[ws]) IN
    IF tunnelWs = 0 THEN tunnelOut' = tunnelOut
    ELSE IF readyState[tunnelWs] = "OPEN" /\ ~sendThrows[tunnelWs]
    THEN tunnelOut' = [tunnelOut EXCEPT ![tunnelWs] = Append(@, TunnelMsg(type, ws, 0))]
    ELSE tunnelOut' = tunnelOut

\* C21: processing a dtmf event, an interrupt event or an event of a type the
\* switch does not know leaves the history and the metadata as they are, invokes
\* no model, sends nothing on the call connection and closes nothing; dtmf
\* mirrors one dtmf_pressed event, interrupt one interrupted event, and an
\* unknown type mirrors nothing.
C21_OtherEventsOnlyMirror ==
    [][\A ws \in Conns :
         ( /\ kind[ws] = "call" /\ CallSideStep
           /\ lastEvent'[ws] \in {"dtmf", "interrupt", "mystery"} )
         => /\ conversationHistory' = conversationHistory
            /\ callMetadata' = callMetadata
            /\ tasks' = tasks /\ inputs' = inputs
            /\ callOut' = callOut
            /\ closeCode' = closeCode /\ pc' = pc
            /\ IF lastEvent'[ws] = "dtmf" THEN MirrorsOne(ws, "dtmf_pressed")
               ELSE IF lastEvent'[ws] = "interrupt" THEN MirrorsOne(ws, "interrupted")
               ELSE tunnelOut' = tunnelOut]_vars

\* C21 happens: a call has processed a dtmf event and an interrupt event, mirrored
\* to its observer, and then an event of an unknown type.
C21_Witness ==
    \E ws \in Conns, o \in Conns :
        /\ kind[ws] = "call" /\ lastEvent[ws] = "mystery"
        /\ kind[o] = "tunnel" /\ Len(tunnelOut[o]) = 3
        /\ tunnelOut[o][2] = TunnelMsg("dtmf_pressed", ws, 0)
        /\ tunnelOut[o][3] = TunnelMsg("interrupted", ws, 0)
        /\ readyState[ws] = "OPEN" /\ closeCode[ws] = 0


\* C22 as stated: whenever a call connection that the router accepted and the
\* server did not refuse closes while an open observer is registered for its
\* token, one call_ended event of the call is mirrored to that observer, be the
\* settings retrieval under way, the credential exchange pending, or the
\* handlers attached.
C22_CloseMirrorsCallEnded ==
    [][\A ws \in Conns :
         LET tunnelWs == TunnelsGet(token[ws]) IN
         ( /\ kind[ws] = "call" /\ closeCode[ws] = 0
           /\ pc[ws] \in {"fetching", "awaitCredentials", "ready"}
           /\ readyState[ws] = "CLOSING" /\ readyState'[ws] = "CLOSED"
           /\ tunnelWs # 0
           /\ readyState[tunnelWs] = "OPEN" /\ ~sendThrows[tunnelWs] )
         => tunnelOut' = [tunnelOut EXCEPT ![tunnelWs] =
                             Append(@, TunnelMsg("call_ended", ws, 0))]]_vars


\* The prompt events of ws whose processing is not complete.
InFlight(ws) == { k \in 1 .. Len(tasks[ws]) : tasks[ws][k].stage # "done" }

\* C23 as stated: the events of a call connection are processed one at a time:
\* no event is taken up while the processing of an earlier one, its awaited
\* model invocations included, is not complete.
C23_OneEventAtATime ==
    \A ws \in Conns : Cardinality(InFlight(ws)) <= 1


\* A message of the call ws is sent to some observer in this step.
MirrorsFrom(ws) ==
    \E o \in Conns :
        /\ Len(tunnelOut'[o]) > Len(tunnelOut[o])
        /\ tunnelOut'[o][Len(tunnelOut'[o])].from = ws

\* The model invocation of the prompt event k of ws is awaited before and after
\* this step.
StillAwaited(ws, k) ==
    /\ k \in 1 .. Len(tasks[ws])
    /\ tasks[ws][k].stage \in {"model1", "model2"}
    /\ tasks'[ws][k] = tasks[ws][k]

\* C24 as stated: while a model invocation of a call is awaited, no message of
\* that call is sent, neither on the call connection nor to the observer.
C24_SilentWhileAwaiting ==
    [][\A ws \in Conns : \A k \in 1 .. MaxPrompts :
         ( StillAwaited(ws, k) /\ readyState' = readyState )
         => ( callOut'[ws] = callOut[ws] /\ ~MirrorsFrom(ws) )]_vars


\* An event of the call a, or the reply to one of its model invocations, is
\* processed in this step.
ProcessedOn(a) ==
    /\ kind[a] = "call"
    /\ inputs'[a] # inputs[a] \/ lastEvent'[a] # lastEvent[a] \/ callMetadata'[a] # callMetadata[a]

\* C25: a step that processes an event of one call connection leaves the
\* history, the metadata, the secret, the configuration, the prompts and the
\* call-connection messages of every other call connection as they are, also
\* when the two calls have the same session token.
C25_OtherCallsUntouched ==
    [][\A a \in Conns, b \in Conns :
         ( ProcessedOn(a) /\ b # a )
         => /\ conversationHistory'[b] = conversationHistory[b]
            /\ callMetadata'[b] = callMetadata[b]
            /\ openaiApiKey'[b] = openaiApiKey[b]
            /\ studentConfig'[b] = studentConfig[b]
            /\ tasks'[b] = tasks[b] /\ inputs'[b] = inputs[b]
            /\ callOut'[b] = callOut[b]
            /\ req'[b] = req[b] /\ pc'[b] = pc[b]]_vars

\* C25 happens: two calls with the same session token have each processed a
\* setup event and a prompt, and their histories differ.
C25_Witness ==
    \E a \in Conns, b \in Conns :
        /\ a # b /\ kind[a] = "call" /\ kind[b] = "call" /\ token[a] = token[b]
        /\ callMetadata[a] = SetupData /\ callMetadata[b] = SetupData
        /\ Len(tasks[a]) = 1 /\ Len(tasks[b]) = 1
        /\ tasks[a][1].stage = "done" /\ tasks[b][1].stage = "model1"
        /\ Len(conversationHistory[a]) > Len(conversationHistory[b])


\* C26 as stated: the message list of every model invocation of a prompt, the
\* one after tool execution included, starts with a system turn whose content
\* is the configuration's instruction text, or the built-in text when there is
\* none, and goes on with the history as it stood.
C26_EveryInvocationHasSystemTurn ==
    \A ws \in Conns : \A k \in 1 .. Len(tasks[ws]) :
        \A i \in 1 .. Len(tasks[ws][k].calls) :
            LET messages == tasks[ws][k].calls[i].messages IN
            /\ messages[1] = SystemTurn(studentConfig[ws])
            /\ Tail(messages) = SubSeq(conversationHistory[ws], 1, Len(messages) - 1)


\* The last reply of the prompt event k of ws (NoReply if none has come).
LastReplyOf(ws, k) ==
    IF RepliesOf(ws, k) = {} THEN NoReply
    ELSE inputs[ws][CHOOSE i \in RepliesOf(ws, k) : \A j \in RepliesOf(ws, k) : i >= j].reply

\* C27: tool calling is one level deep. A prompt event makes at most two model
\* invocations and is settled by at most two replies; the second invocation
\* carries no tool definitions and no tool-choice setting; whatever its response
\* holds, the tool turns of the prompt are those of the first response only;
\* and when it returns a message, the prompt is over and the message's text
\* content is the token of the one text message sent for the prompt.
C27_ToolCallingOneLevelDeep ==
    \A ws \in Conns : \A k \in 1 .. Len(tasks[ws]) :
        /\ Len(tasks[ws][k].calls) <= 2
        /\ Cardinality(RepliesOf(ws, k)) <= 2
        /\ Len(tasks[ws][k].calls) = 2 =>
              /\ tasks[ws][k].calls[2].tools = << >>
              /\ tasks[ws][k].calls[2].tool_choice = Undefined
              /\ Cardinality(ToolTurnsOf(ws, k)) = Len(FirstReplyOf(ws, k).tool_calls)
              /\ \A i \in ToolTurnsOf(ws, k) :
                    \E j \in 1 .. Len(FirstReplyOf(ws, k).tool_calls) :
                        conversationHistory[ws][i].tool_call_id
                            = FirstReplyOf(ws, k).tool_calls[j].id
        /\ (Cardinality(RepliesOf(ws, k)) = 2 /\ LastReplyOf(ws, k).kind = "ok") =>
              /\ tasks[ws][k].stage = "done" /\ tasks[ws][k].failed = "none"
              /\ \A i \in TextsFor(ws, k) : callOut[ws][i].token = LastReplyOf(ws, k).content
              /\ Cardinality(TextsFor(ws, k)) = 1

\* C27 happens: the response of the re-invocation carried a tool invocation of
\* its own, and the prompt ended with that response's text as the answer.
C27_Witness ==
    \E ws \in Conns : \E k \in 1 .. Len(tasks[ws]) :
        /\ Cardinality(RepliesOf(ws, k)) = 2
        /\ LastReplyOf(ws, k).has_tool_calls
        /\ tasks[ws][k].stage = "done"
        /\ \E i \in TextsFor(ws, k) : callOut[ws][i].token = "Sure."


\* The place in the history of the tool-invocation turn of the prompt event k of
\* ws (0 if there is none).
InvocationTurnOf(ws, k) ==
    LET at == { i \in 1 .. Len(conversationHistory[ws]) :
                  /\ conversationHistory[ws][i].role = "assistant"
                  /\ conversationHistory[ws][i].prompt = k
                  /\ conversationHistory[ws][i].tool_calls # << >> }
    IN IF at = {} THEN 0 ELSE CHOOSE i \in at : \A j \in at : i <= j

\* The history of ws holds the tool-invocation turn of the prompt event k
\* (with the invocations of its first response), directly followed by the tool
\* turns of the first n of them, the j-th carrying the id of the j-th invocation
\* and the result of executing it; these are the only tool turns of the prompt,
\* and every other assistant turn of the prompt comes after them.
ToolTurnsInOrder(ws, k, n) ==
    LET h == conversationHistory[ws]
        calls == FirstReplyOf(ws, k).tool_calls
        at == InvocationTurnOf(ws, k)
    IN
    /\ at # 0
    /\ h[at] = Turn("assistant", FirstReplyOf(ws, k).content, calls, 0, k)
    /\ at + n <= Len(h)
    /\ \A j \in 1 .. n :
          h[at + j] = Turn("tool", executeToolCall(calls[j].name), << >>, calls[j].id, k)
    /\ ToolTurnsOf(ws, k) = at + 1 .. at + n
    /\ \A i \in AssistantTurnsOf(ws, k) : i # at => i > at + n

C29_ExchangeOnlyOnFirstPrompt ==
    \A ws \in Conns : req[ws].requestId # 0 => Len(tasks[ws]) > 0


\* The credential_request messages sent to observers for the call ws.
CredentialRequestsOf(ws) ==
    UNION { { << o, i >> : i \in { j \in 1 .. Len(tunnelOut[o]) :
                                    /\ tunnelOut[o][j].type = "credential_request"
                                    /\ tunnelOut[o][j].from = ws } } : o \in Conns }

\* C30: the secret of a call is fixed once chosen. In every step, for every
\* connection: a secret that has been chosen stays as it is; a credential
\* exchange that has started is never replaced by another one, and at most one
\* credential_request has been sent for the call; a call whose configuration
\* carries a stored secret has no credential exchange and uses that secret.
C30_SecretFixedOnceChosen ==
    [][\A ws \in Conns :
         /\ openaiApiKey[ws] # "unset" => openaiApiKey'[ws] = openaiApiKey[ws]
         /\ req[ws].requestId # 0 => req'[ws].requestId = req[ws].requestId
         /\ Cardinality(CredentialRequestsOf(ws)') <= 1
         /\ Truthy(studentConfig'[ws].openai_api_key) =>
               /\ req'[ws] = NoRequest
               /\ CredentialRequestsOf(ws)' = {}
               /\ openaiApiKey'[ws] = studentConfig'[ws].openai_api_key]_vars

\* C30 happens: the exchange of a call timed out, the call uses the default
\* secret, and the observer's response to that request has arrived since.
C30_Witness ==
    \E ws \in Conns :
        /\ pc[ws] = "ready"
        /\ req[ws].outcome = "timeout" /\ req[ws].late
        /\ openaiApiKey[ws] = DefaultKey
        /\ Cardinality(CredentialRequestsOf(ws)) = 1


\* The observer connection o is sent something in this step.
SentTo(o) == tunnelOut'[o] # tunnelOut[o]

\* The call ws starts its engine in this step (its configuration is loaded)
\* without a stored secret.
StartsWithoutSecret(ws) ==
    /\ pc[ws] = "fetching" /\ pc'[ws] \in {"ready", "awaitCredentials"}
    /\ ~Truthy(studentConfig'[ws].openai_api_key)

\* C31: nothing is transmitted to an observer connection that is not open at
\* the moment of sending. In every step, a connection that is sent something is
\* open before the step, or is a new connection that the step registers and
\* confirms with tunnel_connected; and a call that starts without a stored
\* secret while the registered observer of its token is closing or closed gets
\* the outcome of an absent observer: unavailable, no request, the default secret.
C31_NothingSentUnlessOpen ==
    [][/\ \A o \in Conns :
             SentTo(o) =>
                \/ readyState[o] = "OPEN"
                \/ /\ readyState[o] = "NEW"
                   /\ tunnelOut'[o] = << TunnelMsg("tunnel_connected", o, 0) >>
       /\ \A ws \in Conns :
             (StartsWithoutSecret(ws) /\ NoActiveTunnel(TunnelsGet(token[ws]))) =>
                /\ req'[ws] = [NoRequest EXCEPT !.outcome = "unavailable"]
                /\ openaiApiKey'[ws] = DefaultKey
                /\ tunnelOut' = tunnelOut]_vars

\* C31 happens: a call has processed its setup event and started without a
\* stored secret while the registered observer of its token was closing; the
\* observer has received nothing but the confirmation of its registration.
C31_Witness ==
    \E ws \in Conns, o \in Conns :
        /\ kind[ws] = "call" /\ pc[ws] = "ready"
        /\ TunnelsGet(token[ws]) = o /\ readyState[o] = "CLOSING"
        /\ req[ws].outcome = "unavailable"
        /\ callMetadata[ws] # NoMetadata
        /\ tunnelOut[o] = << TunnelMsg("tunnel_connected", o, 0) >>


\* The credential exchanges outstanding for the session token t: the calls of t
\* whose request has been sent and has neither resolved nor timed out.
OutstandingFor(t) ==
    { ws \in Conns : kind[ws] = "call" /\ token[ws] = t /\ req[ws].outcome = "pending" }

\* C32 as stated: at any time at most one credential exchange is outstanding
\* for a session token.
C32_OneExchangePerToken ==
    \A ws \in Conns : kind[ws] = "call" => Cardinality(OutstandingFor(token[ws])) <= 1


\* C33 as stated: no event that arrives on an open call connection is lost; no
\* event has arrived while no 'message' listener was attached.
C33_NoEventLost ==
    \A ws \in Conns : kind[ws] = "call" => unheard[ws] = {}


\* The call ws has taken its k-th prompt event.
Taken(ws, k) == k <= Len(tasks[ws])

\* The text messages for the prompt event k of ws that went out on the call
\* connection: those sent while it was open.
TransmittedFor(ws, k) == { i \in TextsFor(ws, k) : callOut[ws][i].open }

\* C34 as stated: for every prompt event taken, exactly one text message is
\* eventually sent on the call connection, provided the model invocations
\* settle.
C34_OneTextTransmitted ==
    \A ws \in Conns : \A k \in 1 .. MaxPrompts :
        Taken(ws, k) ~> (Cardinality(TransmittedFor(ws, k)) = 1)

\* The prompt event k of ws is over and the engine has made exactly one send for
\* it: the text of the last model response if no error was caught, the apology
\* otherwise.
AnsweredOnce(ws, k) ==
    /\ Taken(ws, k)
    /\ tasks[ws][k].stage = "done"
    /\ Cardinality(TextsFor(ws, k)) = 1
    /\ \A i \in TextsFor(ws, k) :
          /\ callOut[ws][i].type = "text" /\ callOut[ws][i].last
          /\ callOut[ws][i].token = IF tasks[ws][k].failed = "none"
                                    THEN LastReplyOf(ws, k).content ELSE Apology

\* C34 amended: provided the model invocations settle, the engine eventually
\* makes exactly one send of a text message for every prompt event taken, the
\* answer or the apology, never both, and none before the prompt is over; the
\* message goes out on the call connection unless the connection has stopped
\* being open by the time of the send.
C34_OneTextPerPrompt ==
    /\ [](\A ws \in Conns : \A k \in 1 .. Len(tasks[ws]) :
            /\ Cardinality(TextsFor(ws, k)) <= 1
            /\ tasks[ws][k].stage # "done" => TextsFor(ws, k) = {}
            /\ tasks[ws][k].stage = "done" => AnsweredOnce(ws, k)
            /\ \A i \in TextsFor(ws, k) : ~callOut[ws][i].open => readyState[ws] # "OPEN")
    /\ \A ws \in Conns : \A k \in 1 .. MaxPrompts :
          Taken(ws, k) ~> AnsweredOnce(ws, k)

\* C34 happens: of two prompts of a call, one was answered by the apology and
\* the other by the model's text, each with one message sent while the call
\* connection was open.
C34_Witness ==
    \E ws \in Conns :
        /\ Len(tasks[ws]) = 2
        /\ AnsweredOnce(ws, 1) /\ AnsweredOnce(ws, 2)
        /\ tasks[ws][1].failed # "none" /\ tasks[ws][2].failed = "none"
        /\ Cardinality(TransmittedFor(ws, 1)) = 1
        /\ Cardinality(TransmittedFor(ws, 2)) = 1


\* No prompt event of the call ws is being processed.
NoPromptInProgress(ws) == \A k \in 1 .. Len(tasks[ws]) : tasks[ws][k].stage = "done"

\* The turn at place i of the history h is followed by one tool turn per
\* invocation of its tool-call list, in order and with the ids of the list, and
\* by no further tool turn.
FollowedByItsToolTurns(h, i) ==
    LET calls == h[i].tool_calls IN
    /\ i + Len(calls) <= Len(h)
    /\ \A j \in 1 .. Len(calls) :
          h[i + j].role = "tool" /\ h[i + j].tool_call_id = calls[j].id
    /\ i + Len(calls) < Len(h) => h[i + Len(calls) + 1].role # "tool"

\* C35 as stated: whenever no prompt is being processed on a call, every
\* assistant turn of the history that carries a tool-call list is immediately
\* followed by exactly one tool turn per invocation of the list, with the
\* matching ids.
C35_ToolCallsAlwaysAnswered ==
    \A ws \in Conns :
        NoPromptInProgress(ws) =>
            \A i \in 1 .. Len(conversationHistory[ws]) :
                (/\ conversationHistory[ws][i].role = "assistant"
                 /\ conversationHistory[ws][i].tool_calls # << >>) =>
                    FollowedByItsToolTurns(conversationHistory[ws], i)


\* C36 as stated: after the call_ended event of a call has been sent to an
\* observer, no further event of that call is sent to it.
C36_NothingAfterCallEnded ==
    \A o \in Conns : \A i \in 1 .. Len(tunnelOut[o]) :
        tunnelOut[o][i].type = "call_ended" =>
            \A j \in i + 1 .. Len(tunnelOut[o]) :
                tunnelOut[o][j].from # tunnelOut[o][i].from


\* C37: every credential exchange that is started terminates. The exchange of
\* a call is never in another condition than not started, unavailable, pending,
\* resolved or timed out; a call that awaits its exchange has it pending; and a
\* pending exchange leads to one that is resolved or timed out with the call's
\* secret chosen and its handlers attached, whatever becomes of the observer.
C37_ExchangeTerminates ==
    /\ [](\A ws \in Conns :
            /\ req[ws].outcome \in {"none", "unavailable", "pending", "resolved", "timeout"}
            /\ pc[ws] = "awaitCredentials" <=> req[ws].outcome = "pending"
            /\ req[ws].outcome \in {"unavailable", "resolved", "timeout"} =>
                  pc[ws] = "ready" /\ openaiApiKey[ws] # "unset")
    /\ \A ws \in Conns :
          (req[ws].outcome = "pending") ~>
              (req[ws].outcome \in {"resolved", "timeout"} /\ pc[ws] = "ready")

\* C37 happens: the exchange of a call has timed out after the observer it was
\* sent to closed and a newer observer took its place in the registry.
C37_Witness ==
    \E ws \in Conns :
        /\ pc[ws] = "ready" /\ req[ws].outcome = "timeout"
        /\ readyState[req[ws].tunnelWs] = "CLOSED"
        /\ TunnelsGet(token[ws]) \notin {0, req[ws].tunnelWs}

=============================================================================
